---------------------------- MODULE Spec2Model ----------------------------
(***************************************************************************)
(* A model of build_tools/_therock_utils/pattern_match.py: the recursive   *)
(* glob compiler (RecursiveGlobPattern), the include/exclude predicate     *)
(* (MatchPredicate), the tree index (PatternMatcher.add_basedir, matches)  *)
(* and the materializer (PatternMatcher.copy_to).                          *)
(*                                                                         *)
(* Strings are sequences of one-character strings, so that escaping,       *)
(* str.replace and regular-expression matching are computed character by   *)
(* character, as the Python code computes them.                            *)
(***************************************************************************)
EXTENDS Integers, Sequences, FiniteSets, TLC

VARIABLES
    \* RecursiveGlobPattern: self.glob, self.pattern, and the last call of
    \* matches(relpath): its argument and its return value.
    gpc, glob, pattern, relpath, matched,
    \* MatchPredicate: the three lists of compiled patterns, and the last
    \* call of matches(match_path): its argument and its return value.
    ppc, includes, excludes, force_includes, match_path, result,
    \* The source trees on disk (one per base directory), PatternMatcher's
    \* self.all, the calls that built it, and what the last call returned
    \* when it was matches().
    ipc, fs, all, calls, yielded,
    \* One call of PatternMatcher.copy_to: where it is, its remove_dest
    \* argument, whether destdir exists, the loop variable of
    \* _rmtree_with_retry, how each shutil.rmtree call it made ended, the time
    \* it slept (in retry_delay_seconds), the exception that left copy_to, the
    \* matched entries still to place and the paths of those placed.
    cpc, remove_dest, dest_exists, attempt, rm_outcomes, slept, error,
    queue, placed,
    \* The host and the disks: _IS_WINDOWS, the device the destination is on,
    \* whether its filesystem has hard links, and (st_dev, st_ino) of the
    \* source files.
    IS_WINDOWS, destdev, linkable, inodes,
    \* The destination tree, what it was when the running copy_to was
    \* called, the next unused inode number of its device, the always_copy
    \* argument, the copied_inodes dict, the filesystem operations the call
    \* has made, and the number of copy_to calls so far.
    dest, before, next_ino, always_copy, copied_inodes, ops, ncalls,
    \* The verbose argument of copy_to, and whether a write to sys.stderr can
    \* fail.
    verbose, stderr,
    \* Two processes that run copy_to at the same time on one destination:
    \* for each, where it is in its call, the matched entries it has still
    \* to place and the exception that left its call.
    procs,
    \* One call of filter_artifacts: where it is, its three arguments and its
    \* return value.
    fpc, artifacts, filter_includes, filter_excludes, filtered,
    \* One computation of a destination path by copy_to: where it is, the
    \* destprefix argument, the relative path of the index entry, and
    \* destpath.
    dpc, destprefix, entry_relpath, destpath

globVars == <<gpc, glob, pattern, relpath, matched>>
predVars == <<ppc, includes, excludes, force_includes, match_path, result>>

indexVars == <<ipc, fs, all, calls, yielded>>

rmVars == <<attempt, rm_outcomes, slept>>
envVars == <<IS_WINDOWS, destdev, linkable, inodes, stderr>>
destVars == <<dest, next_ino, copied_inodes, ops>>

copyVars ==
    <<cpc, remove_dest, dest_exists, rmVars, error, queue, placed, envVars,
      destVars, before, always_copy, verbose, ncalls>>

filterVars == <<fpc, artifacts, filter_includes, filter_excludes, filtered>>

pathVars == <<dpc, destprefix, entry_relpath, destpath>>

vars ==
    <<globVars, predVars, indexVars, copyVars, procs, filterVars, pathVars>>

\* What the actions of each specification leave alone.
notGlobVars == <<predVars, indexVars, copyVars, procs, filterVars, pathVars>>
notPredVars == <<globVars, indexVars, copyVars, procs, filterVars, pathVars>>
notIndexVars ==
    <<globVars, ppc, match_path, result, copyVars, procs, filterVars, pathVars>>
notCopyVars == <<globVars, predVars, indexVars, procs, filterVars, pathVars>>

-----------------------------------------------------------------------------
(* Characters and strings.                                                 *)

BS == "\\"
NL == "\n"

\* Every sequence over the set S of length at most n.
RECURSIVE SeqsUpTo(_, _)
SeqsUpTo(S, n) ==
    IF n = 0 THEN {<<>>}
    ELSE LET shorter == SeqsUpTo(S, n - 1)
         IN  shorter \cup {Append(s, c) : s \in shorter, c \in S}

HasPrefix(s, pre) ==
    /\ Len(pre) <= Len(s)
    /\ SubSeq(s, 1, Len(pre)) = pre

HasSuffix(s, suf) ==
    /\ Len(suf) <= Len(s)
    /\ SubSeq(s, Len(s) - Len(suf) + 1, Len(s)) = suf

DropFirst(s, n) == SubSeq(s, n + 1, Len(s))

\* The characters re.escape puts a backslash before (those of them that the
\* model's alphabets can hold).
SpecialChars ==
    {"(", ")", "[", "]", "{", "}", "?", "*", "+", "-", "|", "^", "$", BS,
     ".", "&", "~", "#", " ", NL}

\* re.escape(s)
RECURSIVE ReEscape(_)
ReEscape(s) ==
    IF s = <<>> THEN <<>>
    ELSE (IF Head(s) \in SpecialChars THEN <<BS, Head(s)>> ELSE <<Head(s)>>)
         \o ReEscape(Tail(s))

\* s.replace(old, new): every non-overlapping occurrence of old, found left
\* to right, is replaced by new (old is not empty).
RECURSIVE StrReplace(_, _, _)
StrReplace(s, old, new) ==
    IF Len(s) < Len(old) THEN s
    ELSE IF HasPrefix(s, old)
         THEN new \o StrReplace(DropFirst(s, Len(old)), old, new)
         ELSE <<Head(s)>> \o StrReplace(Tail(s), old, new)

-----------------------------------------------------------------------------
(* RecursiveGlobPattern.                                                   *)

ReOptDirs == <<"(", ".", "*", "/", ")", "?">>       \* (.*/)?
ReOptTail == <<"(", "/", ".", "*", ")", "?">>       \* (/.*)?
ReRun     == <<"[", "^", "/", "]", "*">>            \* [^/]*

\* The pattern text built by RecursiveGlobPattern.__init__.
CompileGlob(g) ==
    LET p0 == <<"^">> \o ReEscape(g) \o <<"$">>
        \* Intermediate recursive directory match.
        p1 == StrReplace(p0, <<"/", BS, "*", BS, "*", "/">>, <<"/">> \o ReOptDirs)
        \* First segment recursive directory match.
        p2 == StrReplace(p1, <<"^", BS, "*", BS, "*", "/">>, <<"^">> \o ReOptDirs)
        \* Last segment recursive directory match.
        p3 == StrReplace(p2, <<"/", BS, "*", BS, "*", "$">>, ReOptTail \o <<"$">>)
        \* Intra-segment * match.
        p4 == StrReplace(p3, <<BS, "*">>, ReRun)
        \* Intra-segment ? match.
        p5 == StrReplace(p4, <<BS, "?">>, ReRun)
    IN  p5

\* The regular expressions CompileGlob produces are concatenations of: ^, $,
\* an escaped character, a plain character, '.', (.*/)?, (/.*)? and [^/]*.
\* ReEnds(p, s, S) is the set of positions (numbers of characters of s
\* consumed) at which a match of p can end when it starts at a position of
\* S. Python semantics without flags: '.' matches any character but a
\* newline, [^/] matches any character but '/', and $ matches at the end of
\* the string and just before a newline that ends the string.
NoneIs(s, from, to, c) == \A k \in from..to : s[k] # c

RECURSIVE ReEnds(_, _, _)
ReEnds(p, s, S) ==
    IF p = <<>> \/ S = {} THEN S
    ELSE IF HasPrefix(p, ReOptDirs) THEN
        ReEnds(DropFirst(p, Len(ReOptDirs)), s,
               S \cup {q \in 1..Len(s) :
                         /\ s[q] = "/"
                         /\ \E i \in S : i < q /\ NoneIs(s, i + 1, q - 1, NL)})
    ELSE IF HasPrefix(p, ReOptTail) THEN
        ReEnds(DropFirst(p, Len(ReOptTail)), s,
               S \cup {q \in 1..Len(s) :
                         \E i \in S : /\ i < q
                                      /\ s[i + 1] = "/"
                                      /\ NoneIs(s, i + 2, q, NL)})
    ELSE IF HasPrefix(p, ReRun) THEN
        ReEnds(DropFirst(p, Len(ReRun)), s,
               {q \in 0..Len(s) :
                  \E i \in S : i <= q /\ NoneIs(s, i + 1, q, "/")})
    ELSE IF Head(p) = BS /\ Len(p) >= 2 THEN
        ReEnds(DropFirst(p, 2), s,
               {i + 1 : i \in {j \in S : j < Len(s) /\ s[j + 1] = p[2]}})
    ELSE IF Head(p) = "^" THEN
        ReEnds(Tail(p), s, S \cap {0})
    ELSE IF Head(p) = "$" THEN
        ReEnds(Tail(p), s,
               {i \in S : \/ i = Len(s)
                          \/ i = Len(s) - 1 /\ s[Len(s)] = NL})
    ELSE IF Head(p) = "." THEN
        ReEnds(Tail(p), s,
               {i + 1 : i \in {j \in S : j < Len(s) /\ s[j + 1] # NL}})
    ELSE
        ReEnds(Tail(p), s,
               {i + 1 : i \in {j \in S : j < Len(s) /\ s[j + 1] = Head(p)}})

\* re.compile(p).match(s) is not None: a match that starts at position 0.
ReMatch(p, s) == ReEnds(p, s, {0}) # {}

-----------------------------------------------------------------------------
(* Inputs of the glob specification.                                       *)

MaxGlobLen == 3
MaxLitLen == 2
MaxSegs == 4

GlobChars == {"a", ".", "*", "?", "/"}
LitChars == {"a", "b"}
Literals == (SeqsUpTo(LitChars, MaxLitLen) \ {<<>>}) \cup {<<".">>}

StarStar == <<"*", "*">>
Slash == <<"/">>

\* Literals of one character.
Letters == {<<c>> : c \in LitChars}

\* Globs: every short string over GlobChars, and P/**/Q, **/Q, P/** for
\* literal P and Q, and P/**/**/Q and P/**/Q/**/R for letters P, Q and R.
Globs ==
    SeqsUpTo(GlobChars, MaxGlobLen)
    \cup {P \o Slash \o StarStar \o Slash \o Q : P \in Literals, Q \in Literals}
    \cup {StarStar \o Slash \o Q : Q \in Literals}
    \cup {P \o Slash \o StarStar : P \in Literals}
    \cup {P \o Slash \o StarStar \o Slash \o StarStar \o Slash \o Q :
             P \in Letters, Q \in Letters}
    \cup {P \o Slash \o StarStar \o Slash \o Q \o Slash \o StarStar
             \o Slash \o R : P \in Letters, Q \in Letters, R \in Letters}

\* Path segments: file names (the empty one too, as in "a//b" and "/a").
PathSegs ==
    {<<>>, <<"a">>, <<"b">>, <<"a", "b">>, <<".">>, <<"a", ".", "a">>,
     <<"a", NL>>}

RECURSIVE PathsOfSegs(_)
PathsOfSegs(n) ==
    IF n = 1 THEN PathSegs
    ELSE {p \o Slash \o s : p \in PathsOfSegs(n - 1), s \in PathSegs}

Paths == UNION {PathsOfSegs(n) : n \in 1..MaxSegs}

-----------------------------------------------------------------------------
(* The glob specification: one RecursiveGlobPattern, constructed and then  *)
(* asked about paths.                                                      *)

\* The parts of the state a specification does not use stay as they are here.
GlobUnused ==
    /\ gpc = "unused"
    /\ glob = <<>>
    /\ pattern = <<>>
    /\ relpath = <<>>
    /\ matched = FALSE

PredUnused ==
    /\ ppc = "unused"
    /\ includes = <<>>
    /\ excludes = <<>>
    /\ force_includes = <<>>
    /\ match_path = <<>>
    /\ result = FALSE

IndexUnused ==
    /\ ipc = "unused"
    /\ fs = <<>>
    /\ all = <<>>
    /\ calls = <<>>
    /\ yielded = <<>>

CopyUnused ==
    /\ cpc = "unused"
    /\ remove_dest = FALSE
    /\ dest_exists = FALSE
    /\ attempt = 0
    /\ rm_outcomes = <<>>
    /\ slept = 0
    /\ error = "none"
    /\ queue = <<>>
    /\ placed = <<>>
    /\ IS_WINDOWS = FALSE
    /\ destdev = 0
    /\ linkable = FALSE
    /\ inodes = <<>>
    /\ dest = <<>>
    /\ before = <<>>
    /\ next_ino = 0
    /\ always_copy = FALSE
    /\ copied_inodes = <<>>
    /\ ops = <<>>
    /\ ncalls = 0
    /\ verbose = FALSE
    /\ stderr = "ok"

RaceUnused == procs = <<>>

FilterUnused ==
    /\ fpc = "unused"
    /\ artifacts = {}
    /\ filter_includes = <<>>
    /\ filter_excludes = <<>>
    /\ filtered = {}

PathUnused ==
    /\ dpc = "unused"
    /\ destprefix = <<>>
    /\ entry_relpath = <<>>
    /\ destpath = <<>>

GlobStart ==
    /\ gpc = "new"
    /\ glob \in Globs
    /\ pattern = <<>>
    /\ relpath = <<>>
    /\ matched = FALSE
    /\ PredUnused
    /\ IndexUnused
    /\ CopyUnused
    /\ RaceUnused
    /\ FilterUnused
    /\ PathUnused

\* RecursiveGlobPattern.__init__(glob)
GlobInit ==
    /\ gpc = "new"
    /\ pattern' = CompileGlob(glob)
    /\ gpc' = "compiled"
    /\ UNCHANGED <<glob, relpath, matched>>
    /\ UNCHANGED notGlobVars

\* RecursiveGlobPattern.matches(relpath, direntry)
GlobMatches ==
    /\ gpc = "compiled"
    /\ \E p \in Paths :
         /\ relpath' = p
         /\ matched' = ReMatch(pattern, p)
    /\ gpc' = "matched"
    /\ UNCHANGED <<glob, pattern>>
    /\ UNCHANGED notGlobVars

GlobNext == GlobInit \/ GlobMatches

SpecGlob == GlobStart /\ [][GlobNext]_vars

-----------------------------------------------------------------------------
(* Claims about RecursiveGlobPattern (checked under SpecGlob).             *)

NoNewline(s) == NoneIs(s, 1, Len(s), NL)

HasStarStar(g) == \E i \in 1..(Len(g) - 1) : g[i] = "*" /\ g[i + 1] = "*"

\* p is g with each * and each ? replaced by a run (possibly empty) of
\* characters other than '/': the reading of a glob without ** that the
\* specification gives.
RECURSIVE GlobExpands(_, _)
GlobExpands(g, p) ==
    IF g = <<>> THEN p = <<>>
    ELSE IF Head(g) \in {"*", "?"}
         THEN \E k \in 0..Len(p) :
                 /\ NoneIs(p, 1, k, "/")
                 /\ GlobExpands(Tail(g), DropFirst(p, k))
         ELSE /\ p # <<>>
              /\ Head(p) = Head(g)
              /\ GlobExpands(Tail(g), Tail(p))

\* C3: for every glob without **, matches(p) is true if and only if the
\* whole path p equals the glob with each * and ? replaced by a run of
\* non-'/' characters (the match is anchored at both ends).
C3_AnchoredExpansion ==
    (gpc = "matched" /\ ~HasStarStar(glob))
        => (matched <=> GlobExpands(glob, relpath))

\* C3 restricted to paths that do not end in a newline: there the code and
\* the claim agree.
C3_ExceptTrailingNewline ==
    (gpc = "matched" /\ ~HasStarStar(glob) /\ ~HasSuffix(relpath, <<NL>>))
        => (matched <=> GlobExpands(glob, relpath))

C3_Reached ==
    /\ gpc = "matched"
    /\ glob = <<"*", ".", "a">>
    /\ relpath = <<"a", ".", "a">>
    /\ matched

IsInterior(g, P, Q) == g = P \o Slash \o StarStar \o Slash \o Q

\* p is P/Q, or P/s1/.../sn/Q with n >= 1.
IsBelowThrough(p, P, Q) ==
    \/ p = P \o Slash \o Q
    \/ /\ HasPrefix(p, P \o Slash)
       /\ HasSuffix(p, Slash \o Q)
       /\ Len(p) >= Len(P) + Len(Q) + 2

\* C4: a glob P/**/Q with literal P and Q matches P/Q and every path
\* P/s1/.../sn/Q with n >= 1 intermediate segments, and does not match PQ.
C4_InteriorRecursive ==
    \A P \in Literals, Q \in Literals :
        (gpc = "matched" /\ IsInterior(glob, P, Q))
            => /\ IsBelowThrough(relpath, P, Q) => matched
               /\ relpath = P \o Q => ~matched

\* C4 restricted to paths without a newline character.
C4_ExceptNewline ==
    \A P \in Literals, Q \in Literals :
        (gpc = "matched" /\ IsInterior(glob, P, Q) /\ NoNewline(relpath))
            => /\ IsBelowThrough(relpath, P, Q) => matched
               /\ relpath = P \o Q => ~matched

C4_Reached ==
    /\ gpc = "matched"
    /\ glob = <<"a", "/", "*", "*", "/", "b">>
    /\ relpath = <<"a", "/", "a", "/", "b", "/", "b">>
    /\ matched

\* C5: a glob **/Q with literal Q matches Q and every path s1/.../sn/Q, and
\* does not match a path whose last segment only ends in Q.
C5_LeadingRecursive ==
    \A Q \in Literals :
        (gpc = "matched" /\ glob = StarStar \o Slash \o Q)
            => /\ (relpath = Q \/ HasSuffix(relpath, Slash \o Q)) => matched
               /\ (/\ HasSuffix(relpath, Q)
                   /\ relpath # Q
                   /\ ~HasSuffix(relpath, Slash \o Q)) => ~matched

\* C5 restricted to paths without a newline character.
C5_ExceptNewline ==
    \A Q \in Literals :
        (gpc = "matched" /\ glob = StarStar \o Slash \o Q /\ NoNewline(relpath))
            => /\ (relpath = Q \/ HasSuffix(relpath, Slash \o Q)) => matched
               /\ (/\ HasSuffix(relpath, Q)
                   /\ relpath # Q
                   /\ ~HasSuffix(relpath, Slash \o Q)) => ~matched

C5_Reached ==
    /\ gpc = "matched"
    /\ glob = <<"*", "*", "/", "b">>
    /\ relpath = <<"a", "/", "a", "/", "b">>
    /\ matched

\* C6: a glob P/** with literal P matches P and every path below P, and
\* does not match a sibling that only shares the prefix P.
C6_TrailingRecursive ==
    \A P \in Literals :
        (gpc = "matched" /\ glob = P \o Slash \o StarStar)
            => /\ (relpath = P \/ HasPrefix(relpath, P \o Slash)) => matched
               /\ (/\ HasPrefix(relpath, P)
                   /\ relpath # P
                   /\ ~HasPrefix(relpath, P \o Slash)) => ~matched

\* C6 restricted to paths without a newline character.
C6_ExceptNewline ==
    \A P \in Literals :
        (gpc = "matched" /\ glob = P \o Slash \o StarStar /\ NoNewline(relpath))
            => /\ (relpath = P \/ HasPrefix(relpath, P \o Slash)) => matched
               /\ (/\ HasPrefix(relpath, P)
                   /\ relpath # P
                   /\ ~HasPrefix(relpath, P \o Slash)) => ~matched

C6_Reached ==
    /\ gpc = "matched"
    /\ glob = <<"a", "/", "*", "*">>
    /\ relpath = <<"a", "/", "a", "/", "b">>
    /\ matched

\* p is P/.../Q/.../R, each ... zero or more segments.
IsBelowThroughTwo(p, P, Q, R) ==
    \E k \in 1..Len(p) :
        /\ IsBelowThrough(SubSeq(p, 1, k), P, Q)
        /\ IsBelowThrough(Q \o SubSeq(p, k + 1, Len(p)), Q, R)

\* C23: every interior /**/ of a glob matches zero or more complete path
\* segments, also when the glob has several of them: P/**/**/Q matches
\* exactly the paths P/**/Q matches (P/Q among them), and P/**/Q/**/R
\* matches exactly the paths P/.../Q/.../R.
C23_EveryInteriorRecursive ==
    \A P \in Letters, Q \in Letters :
        (gpc = "matched" /\ NoNewline(relpath)) =>
            /\ glob = P \o Slash \o StarStar \o Slash \o StarStar \o Slash \o Q
                  => (matched <=>
                        ReMatch(CompileGlob(P \o Slash \o StarStar \o Slash \o Q),
                                relpath))
            /\ \A R \in Letters :
                  glob = P \o Slash \o StarStar \o Slash \o Q \o Slash
                            \o StarStar \o Slash \o R
                      => (matched <=> IsBelowThroughTwo(relpath, P, Q, R))

\* The part of C23 about separated /**/: there the code and the claim
\* agree.
C23_SeparatedRecursive ==
    \A P \in Letters, Q \in Letters, R \in Letters :
        (/\ gpc = "matched"
         /\ NoNewline(relpath)
         /\ glob = P \o Slash \o StarStar \o Slash \o Q \o Slash
                     \o StarStar \o Slash \o R)
            => (matched <=> IsBelowThroughTwo(relpath, P, Q, R))

\* What the code makes of consecutive /**/: the second ** is left to the
\* rule for *, so P/**/**/Q matches the paths of P/**/Q that have at least
\* one segment between P and Q.
C23_ConsecutiveNeedsSegment ==
    \A P \in Letters, Q \in Letters :
        (/\ gpc = "matched"
         /\ NoNewline(relpath)
         /\ glob = P \o Slash \o StarStar \o Slash \o StarStar \o Slash \o Q)
            => (matched <=>
                  /\ IsBelowThrough(relpath, P, Q)
                  /\ relpath # P \o Slash \o Q)

\* a/**/**/b was asked about a/b and did not match.
C23_Reached ==
    /\ gpc = "matched"
    /\ glob = <<"a", "/", "*", "*", "/", "*", "*", "/", "b">>
    /\ relpath = <<"a", "/", "b">>
    /\ ~matched

-----------------------------------------------------------------------------
(* MatchPredicate.                                                         *)

\* RecursiveGlobPattern(g): the object holds the glob and its pattern.
RecursiveGlobPattern(g) == [glob |-> g, pattern |-> CompileGlob(g)]

\* [RecursiveGlobPattern(p) for p in globs]
CompileAll(globs) == [i \in 1..Len(globs) |-> RecursiveGlobPattern(globs[i])]

\* Some pattern of the list matches the path.
AnyMatches(patterns, path) ==
    \E i \in 1..Len(patterns) : ReMatch(patterns[i].pattern, path)

\* A predicate that looks at the force_includes only after the includes, so
\* that a force-include overrides the excludes alone.
MatchPredicateMatches_ForceAfterIncludes(inc, exc, force, path) ==
    IF inc # <<>> /\ ~AnyMatches(inc, path) THEN FALSE
    ELSE IF force # <<>> /\ AnyMatches(force, path) THEN TRUE
    ELSE IF AnyMatches(exc, path) THEN FALSE
    ELSE TRUE

\* A predicate whose include loop runs for an empty list too, so that its
\* else branch rejects every path.
MatchPredicateMatches_NoEmptyGuard(inc, exc, force, path) ==
    IF force # <<>> /\ AnyMatches(force, path) THEN TRUE
    ELSE IF ~AnyMatches(inc, path) THEN FALSE
    ELSE IF AnyMatches(exc, path) THEN FALSE
    ELSE TRUE

\* MatchPredicate.matches(match_path, direntry)
MatchPredicateMatches(inc, exc, force, path) ==
    IF force # <<>> /\ AnyMatches(force, path) THEN TRUE
    ELSE IF inc # <<>> /\ ~AnyMatches(inc, path) THEN FALSE
    ELSE IF AnyMatches(exc, path) THEN FALSE
    ELSE TRUE

MaxPatterns == 2

PredGlobs ==
    { <<"*", ".", "a">>, <<"a", ".", "a">>, <<"a", "/", "*", "*">> }

PredPaths ==
    { <<"a", ".", "a">>, <<"b", ".", "a">>, <<"a", "/", "b">>, <<"b">> }

GlobLists == SeqsUpTo(PredGlobs, MaxPatterns)

PredStart ==
    /\ ppc = "new"
    /\ includes = <<>>
    /\ excludes = <<>>
    /\ force_includes = <<>>
    /\ match_path = <<>>
    /\ result = FALSE
    /\ GlobUnused
    /\ IndexUnused
    /\ CopyUnused
    /\ RaceUnused
    /\ FilterUnused
    /\ PathUnused

\* MatchPredicate.__init__(includes, excludes, force_includes)
MatchPredicateInit ==
    /\ ppc = "new"
    /\ \E inc \in GlobLists, exc \in GlobLists, force \in GlobLists :
         /\ includes' = CompileAll(inc)
         /\ excludes' = CompileAll(exc)
         /\ force_includes' = CompileAll(force)
    /\ ppc' = "built"
    /\ UNCHANGED <<match_path, result>>
    /\ UNCHANGED notPredVars

\* MatchPredicate.matches(match_path, direntry)
MatchPredicateCall ==
    /\ ppc \in {"built", "matched"}
    /\ \E path \in PredPaths :
         /\ match_path' = path
         /\ result' = MatchPredicateMatches(includes, excludes,
                                            force_includes, path)
    /\ ppc' = "matched"
    /\ UNCHANGED <<includes, excludes, force_includes>>
    /\ UNCHANGED notPredVars

PredNext == MatchPredicateInit \/ MatchPredicateCall

SpecPredicate == PredStart /\ [][PredNext]_vars

-----------------------------------------------------------------------------
(* Claims about MatchPredicate (checked under SpecPredicate).              *)

\* C1: matches returns true for every path that matches at least one
\* force_includes pattern, whatever the includes and excludes hold.
C1_ForceIncludeWins ==
    (ppc = "matched" /\ AnyMatches(force_includes, match_path)) => result

\* The path matches an exclude and the includes too, and is force-included;
\* the other path of the example is excluded.
C1_Reached ==
    /\ ppc = "matched"
    /\ match_path = <<"a", ".", "a">>
    /\ result
    /\ AnyMatches(force_includes, match_path)
    /\ AnyMatches(excludes, match_path)
    /\ includes # <<>>
    /\ ~MatchPredicateMatches(includes, excludes, force_includes,
                              <<"b", ".", "a">>)

\* C2: for a path that matches no force_includes pattern, matches returns
\* true if and only if (includes is empty or the path matches an include)
\* and the path matches no exclude.
C2_IncludeExclude ==
    (ppc = "matched" /\ ~AnyMatches(force_includes, match_path))
        => (result <=> /\ includes = <<>> \/ AnyMatches(includes, match_path)
                       /\ ~AnyMatches(excludes, match_path))

\* Empty includes, some excludes, and a path they do not exclude passes.
C2_Reached ==
    /\ ppc = "matched"
    /\ includes = <<>>
    /\ excludes # <<>>
    /\ ~AnyMatches(force_includes, match_path)
    /\ ~AnyMatches(excludes, match_path)
    /\ result

-----------------------------------------------------------------------------
(* The source trees. A location is a sequence of file names below a base   *)
(* directory; a tree gives the node at every location of Locs.             *)

Names == {<<"a">>, <<"b">>}

NoNode == [kind |-> "none", target |-> <<>>]
FileNode == [kind |-> "file", target |-> <<>>]
DirNode == [kind |-> "dir", target |-> <<>>]
\* A symbolic link whose target is the relative path t (a location relative
\* to the directory that holds the link).
LinkNode(t) == [kind |-> "link", target |-> t]

Locs == { <<<<"a">>>>, <<<<"b">>>>, <<<<"a">>, <<"a">>>>, <<<<"a">>, <<"b">>>> }

\* The nodes the trees of the model may hold at each location: a is a file,
\* an empty directory or a directory with children; b is a file or a link
\* to a (to a directory, to a file, or dangling).
NodesAt(loc) ==
    IF loc = <<<<"a">>>> THEN {NoNode, FileNode, DirNode}
    ELSE IF loc = <<<<"b">>>> THEN {NoNode, FileNode, LinkNode(<<<<"a">>>>)}
    ELSE IF loc = <<<<"a">>, <<"a">>>> THEN {NoNode, FileNode}
    ELSE {NoNode, FileNode, DirNode}

Front(s) == SubSeq(s, 1, Len(s) - 1)
Last(s) == s[Len(s)]

Trees ==
    {t \in [Locs -> UNION {NodesAt(loc) : loc \in Locs}] :
        \A loc \in Locs :
            /\ t[loc] \in NodesAt(loc)
            /\ (Len(loc) > 1 /\ t[loc] # NoNode) => t[Front(loc)] = DirNode}

Bases == {"A", "B"}

\* The node a tree holds at a location (the base directory is a directory).
NodeAt(tree, loc) ==
    IF loc = <<>> THEN DirNode
    ELSE IF loc \in DOMAIN tree THEN tree[loc]
    ELSE NoNode

\* The location of nothing: what a path that cannot be resolved stands for.
Nowhere == <<<<>>>>

\* How many symbolic links the resolution of one path follows before it
\* gives up (a loop of links).
MaxLinkHops == 2

\* Path resolution as the operating system does it: `done` is resolved, the
\* names of `rest` are still to walk, every symbolic link met is followed.
RECURSIVE Resolve(_, _, _, _)
Resolve(tree, done, rest, hops) ==
    IF rest = <<>> THEN done
    ELSE LET here == Append(done, Head(rest))
             node == NodeAt(tree, here)
         IN  IF node.kind = "link"
             THEN IF hops = 0 THEN Nowhere
                  ELSE Resolve(tree, done, node.target \o Tail(rest), hops - 1)
             ELSE IF node.kind = "none" THEN Nowhere
             ELSE Resolve(tree, here, Tail(rest), hops)

\* os.lstat: the node a path names, a final symbolic link not followed.
Lstat(tree, loc) ==
    IF loc = <<>> THEN DirNode
    ELSE NodeAt(tree, Append(Resolve(tree, <<>>, Front(loc), MaxLinkHops),
                             Last(loc)))

\* os.stat: the node a path names, every symbolic link followed.
Stat(tree, loc) == NodeAt(tree, Resolve(tree, <<>>, loc, MaxLinkHops))

\* The names os.scandir(path) yields: the children of the directory the
\* path resolves to.
ListDir(tree, loc) ==
    LET real == Resolve(tree, <<>>, loc, MaxLinkHops)
    IN  {n \in Names : NodeAt(tree, Append(real, n)).kind # "none"}

\* The os.DirEntry scandir yields for a name: where it is (entry.path is
\* base/loc, entry.name the last name of loc) and the type of the entry
\* itself.
DirEntry(b, tree, loc) ==
    [base |-> b, loc |-> loc, kind |-> Lstat(tree, loc).kind]

\* entry.is_dir(follow_symlinks=...)
IsDir(tree, entry, follow_symlinks) ==
    IF follow_symlinks THEN Stat(tree, entry.loc).kind = "dir"
    ELSE Lstat(tree, entry.loc).kind = "dir"

\* A scan that follows symbolic links to directories.
EntryIsDir_Follow(tree, entry) == IsDir(tree, entry, TRUE)

\* entry.is_dir(follow_symlinks=False), as scan_children asks it.
EntryIsDir(tree, entry) == IsDir(tree, entry, FALSE)

-----------------------------------------------------------------------------
(* PatternMatcher: the index self.all, a dict, is a sequence of            *)
(* [key, entry] in insertion order.                                        *)

KeyIndex(d, k) == CHOOSE i \in 1..Len(d) : d[i].key = k
HasKey(d, k) == \E i \in 1..Len(d) : d[i].key = k
Keys(d) == {d[i].key : i \in 1..Len(d)}
Lookup(d, k) == d[KeyIndex(d, k)].entry

\* A dict whose assignment keeps the value an existing key already has.
DictSet_KeepFirst(d, k, v) ==
    IF HasKey(d, k) THEN d
    ELSE Append(d, [key |-> k, entry |-> v])

\* A dict whose assignment moves an existing key to the end.
DictSet_MoveToEnd(d, k, v) ==
    Append(SelectSeq(d, LAMBDA item : item.key # k), [key |-> k, entry |-> v])

\* d[k] = v: a new key is appended, an existing key keeps its place and
\* gets the new value.
DictSet(d, k, v) ==
    IF HasKey(d, k) THEN [d EXCEPT ![KeyIndex(d, k)].entry = v]
    ELSE Append(d, [key |-> k, entry |-> v])

\* The assignments of a sequence of [key, entry], made in order.
RECURSIVE DictSetAll(_, _)
DictSetAll(d, items) ==
    IF items = <<>> THEN d
    ELSE DictSetAll(DictSet(d, Head(items).key, Head(items).entry), Tail(items))

\* The orders in which os.scandir may yield the names of a directory.
Orders(S) ==
    {ord \in [1..Cardinality(S) -> S] :
        \A i, j \in 1..Cardinality(S) : i # j => ord[i] # ord[j]}

\* scan_children(rootpath, prefix): the sequences of assignments to
\* all[relpath] it can make, one for every order in which the directories
\* can be listed. ScanInOrder is the for loop over one listing.
RECURSIVE ScanChildren(_, _, _, _)
RECURSIVE ScanInOrder(_, _, _, _, _)
ScanInOrder(b, tree, rootloc, prefix, ord) ==
    IF ord = <<>> THEN {<<>>}
    ELSE LET entry == DirEntry(b, tree, Append(rootloc, Head(ord)))
             rel == prefix \o Head(ord)
             item == [key |-> rel, entry |-> entry]
             first == IF EntryIsDir(tree, entry)
                      THEN {<<item>> \o below :
                              below \in ScanChildren(b, tree, entry.loc,
                                                     rel \o Slash)}
                      ELSE {<<item>>}
         IN  {f \o rest : f \in first,
                          rest \in ScanInOrder(b, tree, rootloc, prefix,
                                               Tail(ord))}

ScanChildren(b, tree, rootloc, prefix) ==
    UNION {ScanInOrder(b, tree, rootloc, prefix, ord) :
             ord \in Orders(ListDir(tree, rootloc))}

\* A matches() that yields the entries in reverse.
RECURSIVE Reverse(_)
Reverse(s) == IF s = <<>> THEN <<>> ELSE Append(Reverse(Tail(s)), Head(s))

PatternMatcherMatches_Reversed(d, inc, exc, force) ==
    Reverse(SelectSeq(d, LAMBDA item :
                MatchPredicateMatches(inc, exc, force, item.key)))

\* A matches() that prunes: it yields no entry below a directory entry
\* whose own path the predicate rejects.
PatternMatcherMatches_Pruned(d, inc, exc, force) ==
    SelectSeq(d, LAMBDA item :
        /\ MatchPredicateMatches(inc, exc, force, item.key)
        /\ \A i \in 1..Len(d) :
              HasPrefix(item.key, d[i].key \o Slash)
                  => MatchPredicateMatches(inc, exc, force, d[i].key))

\* PatternMatcher.matches(): the generator, run to its end.
PatternMatcherMatches(d, inc, exc, force) ==
    SelectSeq(d, LAMBDA item : MatchPredicateMatches(inc, exc, force, item.key))

-----------------------------------------------------------------------------
(* The index specification: one PatternMatcher over two source trees.      *)

MaxCalls == 2

\* The (includes, excludes, force_includes) the PatternMatcher is built
\* with: nothing; the directory a excluded (not what is below it); a and
\* what is below it included, its children excluded, a/a forced; the
\* children of a included (not a itself).
IndexPredicates ==
    { << <<>>, <<>>, <<>> >>,
      << <<>>, << <<"a">> >>, <<>> >>,
      << << <<"a", "/", "*">> >>, <<>>, <<>> >>,
      << << <<"a", "/", "*", "*">> >>,
         << <<"a", "/", "*">> >>,
         << <<"a", "/", "a">> >> >> }

\* What add_entry is called with: a path, and an entry of base directory B.
InjectedKeys == { <<"a", "/", "b">> }
InjectedLocs == { <<<<"a">>>>, <<<<"b">>>> }

\* PatternMatcher.__init__(includes, excludes, force_includes), over any
\* two source trees.
IndexStart ==
    /\ ipc = "built"
    /\ fs \in [Bases -> Trees]
    /\ \E p \in IndexPredicates :
         /\ includes = CompileAll(p[1])
         /\ excludes = CompileAll(p[2])
         /\ force_includes = CompileAll(p[3])
    /\ all = <<>>
    /\ calls = <<>>
    /\ yielded = <<>>
    /\ ppc = "built"
    /\ match_path = <<>>
    /\ result = FALSE
    /\ GlobUnused
    /\ CopyUnused
    /\ RaceUnused
    /\ FilterUnused
    /\ PathUnused

\* PatternMatcher.add_basedir(basedir)
AddBasedir ==
    /\ ipc \in {"built", "yielded"}
    /\ Len(calls) < MaxCalls
    /\ \E b \in Bases :
         /\ \E items \in ScanChildren(b, fs[b], <<>>, <<>>) :
              all' = DictSetAll(all, items)
         /\ calls' = Append(calls, [op |-> "add_basedir", base |-> b])
    /\ ipc' = "built"
    /\ yielded' = <<>>
    /\ UNCHANGED <<fs, includes, excludes, force_includes>>
    /\ UNCHANGED notIndexVars

\* PatternMatcher.add_entry(relpath, direntry)
AddEntry ==
    /\ ipc \in {"built", "yielded"}
    /\ Len(calls) < MaxCalls
    /\ \E k \in InjectedKeys, loc \in InjectedLocs :
         /\ fs["B"][loc] # NoNode
         /\ all' = DictSet(all, k, DirEntry("B", fs["B"], loc))
    /\ calls' = Append(calls, [op |-> "add_entry", base |-> "B"])
    /\ ipc' = "built"
    /\ yielded' = <<>>
    /\ UNCHANGED <<fs, includes, excludes, force_includes>>
    /\ UNCHANGED notIndexVars

\* PatternMatcher.matches(), iterated to its end.
Matches ==
    /\ ipc = "built"
    /\ yielded' = PatternMatcherMatches(all, includes, excludes, force_includes)
    /\ ipc' = "yielded"
    /\ UNCHANGED <<fs, all, calls, includes, excludes, force_includes>>
    /\ UNCHANGED notIndexVars

IndexNext == AddBasedir \/ AddEntry \/ Matches

SpecIndex == IndexStart /\ [][IndexNext]_vars

-----------------------------------------------------------------------------
(* Claims about the index (checked under SpecIndex).                       *)

\* The '/'-separated relative path of a location.
RECURSIVE JoinLoc(_)
JoinLoc(loc) ==
    IF Len(loc) = 1 THEN loc[1]
    ELSE JoinLoc(Front(loc)) \o Slash \o Last(loc)

\* The descendants of a base directory: what is on disk below it.
Descendants(b) == {loc \in Locs : fs[b][loc] # NoNode}
RelPaths(b) == {JoinLoc(loc) : loc \in Descendants(b)}
LocOf(b, k) == CHOOSE loc \in Descendants(b) : JoinLoc(loc) = k
\* The entry of base directory b at relative path k.
EntryOf(b, k) ==
    [base |-> b, loc |-> LocOf(b, k), kind |-> fs[b][LocOf(b, k)].kind]

OnlyAddBasedir == \A i \in 1..Len(calls) : calls[i].op = "add_basedir"

\* C7: after add_basedir(A) followed by add_basedir(B) the key set is the
\* union of the relative paths under A and under B, a path under both maps
\* to B's entry, and a path under A alone still maps to A's entry.
C7_LastWriterWins ==
    (Len(calls) = 2 /\ OnlyAddBasedir) =>
        LET A == calls[1].base
            B == calls[2].base
        IN  /\ Keys(all) = RelPaths(A) \cup RelPaths(B)
            /\ \A k \in RelPaths(B) : Lookup(all, k) = EntryOf(B, k)
            /\ \A k \in RelPaths(A) \ RelPaths(B) : Lookup(all, k) = EntryOf(A, k)

\* Two different base directories with a shared path that holds different
\* things, and a path under the first alone.
C7_Reached ==
    /\ Len(calls) = 2
    /\ OnlyAddBasedir
    /\ calls[1].base = "A"
    /\ calls[2].base = "B"
    /\ RelPaths("A") \ RelPaths("B") # {}
    /\ \E k \in RelPaths("A") \cap RelPaths("B") :
         /\ EntryOf("A", k).kind # EntryOf("B", k).kind
         /\ Lookup(all, k) = EntryOf("B", k)

\* C8: add_basedir (on a new index) inserts exactly one entry for every
\* descendant of the base directory, files, directories (empty ones too)
\* and symbolic links, keyed by its relative path; a symbolic link is one
\* entry and nothing is indexed below it.
C8_OneEntryPerDescendant ==
    (Len(calls) = 1 /\ OnlyAddBasedir) =>
        LET b == calls[1].base
        IN  /\ Len(all) = Cardinality(Descendants(b))
            /\ Keys(all) = RelPaths(b)
            /\ \A k \in RelPaths(b) : Lookup(all, k) = EntryOf(b, k)
            /\ \A i, j \in 1..Len(all) :
                 all[i].entry.kind = "link"
                    => ~HasPrefix(all[j].key, all[i].key \o Slash)

\* A tree with a file, an empty directory and a link to a directory that
\* has children.
C8_Reached ==
    /\ Len(calls) = 1
    /\ OnlyAddBasedir
    /\ Len(all) = 4
    /\ \E i \in 1..Len(all) :
         /\ all[i].entry.kind = "link"
         /\ Stat(fs[calls[1].base], all[i].entry.loc).kind = "dir"
    /\ \E i \in 1..Len(all) :
         /\ all[i].entry.kind = "dir"
         /\ ListDir(fs[calls[1].base], all[i].entry.loc) = {}

\* child is a path directly below the path parent.
IsParentPath(parent, child) ==
    /\ HasPrefix(child, parent \o Slash)
    /\ Len(child) > Len(parent) + 1
    /\ NoneIs(child, Len(parent) + 2, Len(child), "/")

\* C9: matches() yields exactly the index entries the predicate accepts, in
\* index order; when the index was built by add_basedir calls only, a
\* yielded path whose parent path is yielded too comes after the parent.
C9_YieldOrder ==
    ipc = "yielded" =>
        /\ {yielded[i] : i \in 1..Len(yielded)}
             = {all[i] : i \in {j \in 1..Len(all) :
                    MatchPredicateMatches(includes, excludes, force_includes,
                                          all[j].key)}}
        /\ \A i, j \in 1..Len(yielded) :
             i < j => KeyIndex(all, yielded[i].key) < KeyIndex(all, yielded[j].key)
        /\ OnlyAddBasedir =>
             \A i, j \in 1..Len(yielded) :
                IsParentPath(yielded[j].key, yielded[i].key) => j < i

\* Two scans of different base directories, the second replacing an entry
\* of the first, a parent and its child yielded and another entry rejected.
C9_Reached ==
    /\ ipc = "yielded"
    /\ Len(calls) = 2
    /\ OnlyAddBasedir
    /\ calls[1].base # calls[2].base
    /\ RelPaths(calls[1].base) \cap RelPaths(calls[2].base) # {}
    /\ Len(yielded) < Len(all)
    /\ \E i, j \in 1..Len(yielded) : IsParentPath(yielded[j].key, yielded[i].key)

\* With add_entry the index need not hold a parent before its child.
C9_InjectedChildFirst ==
    /\ ipc = "yielded"
    /\ \E i, j \in 1..Len(yielded) :
         IsParentPath(yielded[j].key, yielded[i].key) /\ i < j

-----------------------------------------------------------------------------
(* The destination tree and the operating-system calls copy_to makes on    *)
(* it. A destination node carries, for a regular file, the device and      *)
(* inode number os.stat reports and the content; the content of a source   *)
(* file is named after its inode, so files have the same content exactly   *)
(* when they are the same file or one is a copy of the other.              *)

DestNone ==
    [kind |-> "none", target |-> <<>>, dev |-> 0, ino |-> 0, data |-> <<0, 0>>]
DestDir ==
    [kind |-> "dir", target |-> <<>>, dev |-> 0, ino |-> 0, data |-> <<0, 0>>]
DestLink(t) ==
    [kind |-> "link", target |-> t, dev |-> 0, ino |-> 0, data |-> <<0, 0>>]
DestFile(dev, ino, data) ==
    [kind |-> "file", target |-> <<>>, dev |-> dev, ino |-> ino, data |-> data]

\* The destination directory with nothing in it.
EmptyDest == [loc \in Locs |-> DestNone]

\* os.stat(direntry.path) of a regular file of the source tree, and what
\* the file holds.
SrcStat(entry) == inodes[entry.loc]
SrcData(st) == <<st.dev, st.ino>>

\* PurePosixPath(relpath).parts: the names between the slashes, empty
\* names and "." dropped.
RECURSIVE SplitPath(_, _)
SplitPath(s, cur) ==
    LET name == IF cur = <<>> \/ cur = <<".">> THEN <<>> ELSE <<cur>>
    IN  IF s = <<>> THEN name
        ELSE IF Head(s) = "/" THEN name \o SplitPath(Tail(s), <<>>)
        ELSE SplitPath(Tail(s), Append(cur, Head(s)))

\* destpath = destdir / PurePosixPath(destprefix + relpath), as a location
\* below destdir (destprefix is "").
DestPath(path) == SplitPath(path, <<>>)

\* What one turn of the loop of copy_to works on: the destination tree d,
\* the next unused inode number, copied_inodes, the operations made so
\* far, and the exception raised ("none" while there is none).
Fail(w, e) == [w EXCEPT !.err = e]
Log(w, op, loc, how) ==
    [w EXCEPT !.ops = Append(@, [op |-> op, loc |-> loc, how |-> how])]

\* destpath.exists(): os.stat succeeds (symbolic links followed).
PathExists(d, loc) == Stat(d, loc).kind # "none"
\* destpath.is_symlink()
PathIsSymlink(d, loc) == Lstat(d, loc).kind = "link"

\* os.unlink(destpath)
OsUnlink(w, loc) ==
    LET kind == Lstat(w.d, loc).kind
    IN  IF kind = "dir" THEN Fail(w, "IsADirectoryError")
        ELSE IF kind = "none" THEN Fail(w, "FileNotFoundError")
        ELSE Log([w EXCEPT !.d[loc] = DestNone], "unlink", loc, "")

\* Path.mkdir(parents=True, exist_ok=True): os.mkdir; on FileNotFoundError
\* the parents are made first; any other OSError is re-raised unless the
\* path is a directory.
RECURSIVE PathMkdir(_, _)
PathMkdir(w, loc) ==
    IF loc = <<>> THEN w
    ELSE IF Lstat(w.d, loc).kind # "none"
    THEN IF Stat(w.d, loc).kind = "dir" THEN w
         ELSE Fail(w, "FileExistsError")
    ELSE LET up == Stat(w.d, Front(loc)).kind
         IN  IF up = "dir"
             THEN Log([w EXCEPT !.d[loc] = DestDir], "mkdir", loc, "")
             ELSE IF up = "none"
             THEN LET p == PathMkdir(w, Front(loc))
                  IN  IF p.err # "none" THEN p
                      ELSE Log([p EXCEPT !.d[loc] = DestDir], "mkdir", loc, "")
             ELSE Fail(w, "NotADirectoryError")

\* os.link(src, destpath) can make the link: both are on one device of a
\* filesystem with hard links, nothing is at destpath and its directory
\* is there.
CanLink(d, dev, loc) ==
    /\ linkable
    /\ dev = destdev
    /\ Lstat(d, loc).kind = "none"
    /\ Stat(d, Front(loc)).kind = "dir"

\* os.link(file, destpath) where the file is the inode (dev, ino) holding
\* data; `how` tells what was linked to.
OsLink(w, dev, ino, data, loc, how) ==
    IF CanLink(w.d, dev, loc)
    THEN Log([w EXCEPT !.d[loc] = DestFile(dev, ino, data)], "link", loc, how)
    ELSE Fail(w, "OSError(os.link)")

\* The destination tree after the content of the file (dev, ino) was
\* replaced: every path of that file shows the new content.
Overwrite(d, dev, ino, data) ==
    [loc \in Locs |->
        IF d[loc].kind = "file" /\ d[loc].dev = dev /\ d[loc].ino = ino
        THEN [d[loc] EXCEPT !.data = data]
        ELSE d[loc]]

\* shutil.copy2(src, destpath, follow_symlinks=False) of a regular file:
\* a new file, or the content of the file that is there replaced (the
\* file a symbolic link at destpath points to); `full` is a disk with no
\* room left.
RECURSIVE ShutilCopy2(_, _, _, _)
ShutilCopy2(w, st, loc, full) ==
    LET node == Lstat(w.d, loc)
    IN  IF node.kind = "dir" THEN Fail(w, "IsADirectoryError")
        ELSE IF Stat(w.d, Front(loc)).kind # "dir"
        THEN Fail(w, "FileNotFoundError")
        ELSE IF node.kind = "file" /\ node.dev = st.dev /\ node.ino = st.ino
        THEN Fail(w, "SameFileError")
        ELSE IF full THEN Fail(w, "OSError(ENOSPC)")
        ELSE IF node.kind = "file"
        THEN Log([w EXCEPT !.d = Overwrite(@, node.dev, node.ino, SrcData(st))],
                 "copy", loc, "")
        ELSE IF node.kind = "link"
        THEN ShutilCopy2(w, st, Front(loc) \o node.target, full)
        ELSE Log([w EXCEPT !.d[loc] = DestFile(destdev, w.next, SrcData(st)),
                           !.next = @ + 1],
                 "copy", loc, "")

\* os.symlink(targetpath, destpath)
OsSymlink(w, target, loc) ==
    IF Lstat(w.d, loc).kind # "none" THEN Fail(w, "FileExistsError")
    ELSE IF Stat(w.d, Front(loc)).kind # "dir" THEN Fail(w, "FileNotFoundError")
    ELSE Log([w EXCEPT !.d[loc] = DestLink(target)], "symlink", loc, "")

-----------------------------------------------------------------------------
(* The three file copy strategies and the handlers of copy_to.             *)

\* `if verbose: print(..., file=sys.stderr)`: w.fault counts the prints
\* down to the one that raises OSError (0: none does).
PrintStderr(w) ==
    IF ~w.verbose \/ w.err # "none" THEN w
    ELSE IF w.fault = 1 THEN [w EXCEPT !.err = "OSError(stderr)", !.fault = 0]
    ELSE [w EXCEPT !.fault = IF @ = 0 THEN 0 ELSE @ - 1]

\* The print of copy_to's `finally`: it runs after an exception too, and
\* its own exception takes the place of that one.
PrintFinally(w) ==
    IF w.verbose /\ w.fault = 1
    THEN [w EXCEPT !.err = "OSError(stderr)", !.fault = 0]
    ELSE w

\* _plain_copy(src, destpath)
PlainCopy(w, st, loc, full) ==
    LET announced == PrintStderr(w)
    IN  IF announced.err # "none" THEN announced
        ELSE ShutilCopy2(announced, st, loc, full)

\* _hardlink_or_copy_from_source(src, destpath): the print and os.link in
\* the try block, and on the OSError of either the second print and the
\* plain copy.
HardlinkOrCopyFromSource(w, st, loc, full) ==
    LET announced == PrintStderr(w)
        linked == IF announced.err # "none" THEN announced
                  ELSE OsLink(announced, st.dev, st.ino, SrcData(st), loc,
                              "source")
        caught == Log([announced EXCEPT !.err = "none"], "fallback", loc, "")
    IN  IF linked.err = "none" THEN linked
        ELSE PlainCopy(PrintStderr(caught), st, loc, full)

\* A tracker that tells files apart by their inode number alone.
InodeKey_InoOnly(st) == <<0, st.ino>>

\* inode_key = (src_stat.st_dev, src_stat.st_ino)
InodeKey(st) == <<st.dev, st.ino>>

\* _copy_preserving_hardlink_groups(src, destpath, copied_inodes): a link
\* to the previous copy of the inode, or the first copy, recorded.
CopyPreservingHardlinkGroups(w, st, loc, full) ==
    LET inode_key == InodeKey(st)
    IN  IF inode_key \in DOMAIN w.tracker
        THEN LET prev_dest == Stat(w.d, w.tracker[inode_key])
                 announced == PrintStderr(w)
             IN  IF announced.err # "none" THEN announced
                 ELSE IF prev_dest.kind # "file"
                 THEN Fail(announced, "FileNotFoundError")
                 ELSE OsLink(announced, prev_dest.dev, prev_dest.ino,
                             prev_dest.data, loc, "prev_dest")
        ELSE LET announced == PrintStderr(w)
                 copied == IF announced.err # "none" THEN announced
                           ELSE ShutilCopy2(announced, st, loc, full)
             IN  IF copied.err # "none" THEN copied
                 ELSE [copied EXCEPT !.tracker = (inode_key :> loc) @@ @]

\* A dispatch that takes the plain copy on every host.
Strategy_NoGroups(ac, win) ==
    IF ~ac THEN "hardlink_or_copy_from_source" ELSE "plain_copy"

\* The dispatch at the end of _copy_regular_file.
Strategy(ac, win) ==
    IF ~ac THEN "hardlink_or_copy_from_source"
    ELSE IF win THEN "plain_copy"
    ELSE "copy_preserving_hardlink_groups"

\* A test that never finds the destination already linked.
AlreadyHardlinked_Never(d, loc, st) == FALSE

\* destpath.exists() and
\* os.stat(destpath).st_ino == os.stat(direntry.path).st_ino
AlreadyHardlinked(d, loc, st) ==
    /\ PathExists(d, loc)
    /\ Stat(d, loc).ino = st.ino

\* A removal of what is at destpath that leaves symbolic links alone.
IsStale_FilesOnly(d, loc) == PathExists(d, loc)

\* destpath.exists() or destpath.is_symlink()
IsStale(d, loc) == PathExists(d, loc) \/ PathIsSymlink(d, loc)

\* _copy_regular_file(direntry, destpath, always_copy, remove_dest, ...)
CopyRegularFile(w, entry, loc, ac, rd, win, full) ==
    LET st == SrcStat(entry)
        how == Strategy(ac, win)
    IN  IF ~ac /\ AlreadyHardlinked(w.d, loc, st)
        THEN PrintStderr(Log(w, "skip", loc, ""))
        ELSE LET cleared == IF ~rd /\ IsStale(w.d, loc)
                            THEN OsUnlink(w, loc) ELSE w
                 parent == IF cleared.err # "none" THEN cleared
                           ELSE PathMkdir(cleared, Front(loc))
                 ready == Log(parent, "place", loc, how)
             IN  IF parent.err # "none" THEN parent
                 ELSE IF how = "hardlink_or_copy_from_source"
                 THEN HardlinkOrCopyFromSource(ready, st, loc, full)
                 ELSE IF how = "plain_copy"
                 THEN PlainCopy(ready, st, loc, full)
                 ELSE CopyPreservingHardlinkGroups(ready, st, loc, full)

\* _copy_symlink(direntry, destpath, remove_dest): targetpath is
\* os.readlink(direntry.path).
CopySymlink(w, entry, loc, rd) ==
    LET targetpath == fs[entry.base][entry.loc].target
        cleared == IF ~rd /\ IsStale(w.d, loc) THEN OsUnlink(w, loc) ELSE w
        announced == PrintStderr(cleared)
        parent == IF announced.err # "none" THEN announced
                  ELSE PathMkdir(announced, Front(loc))
    IN  IF parent.err # "none" THEN parent
        ELSE OsSymlink(parent, targetpath, loc)

\* The directory branch of copy_to: destpath.mkdir(parents=True,
\* exist_ok=True).
CopyDirectory(w, loc) ==
    LET announced == PrintStderr(w)
    IN  IF announced.err # "none" THEN announced
        ELSE PathMkdir(announced, loc)

\* A removal that leaves the tree as it is.
Rmtree_KeepAll(d) == d

\* shutil.rmtree(path), when it succeeds: nothing is left.
Rmtree(d) == EmptyDest

\* A dispatch that asks only direntry.is_dir(), which follows symbolic
\* links.
IsDirectoryEntry_Follow(entry) == IsDir(fs[entry.base], entry, TRUE)

\* direntry.is_dir() and not direntry.is_symlink()
IsDirectoryEntry(entry) ==
    IsDir(fs[entry.base], entry, TRUE) /\ entry.kind # "link"

\* direntry.is_symlink()
IsSymlinkEntry(entry) == entry.kind = "link"

-----------------------------------------------------------------------------
(* PatternMatcher.copy_to: the removal of the destination with retry, the  *)
(* creation of the destination directory and the loop over the matched     *)
(* entries.                                                                *)

\* PatternMatcher.max_attempts
max_attempts == 5

\* A retry loop that compares the loop variable with max_attempts itself.
IsLastAttempt_OffByOne(a) == a = max_attempts

\* attempt == self.max_attempts - 1
IsLastAttempt(a) == a = max_attempts - 1

\* wait_time, in units of retry_delay_seconds
WaitTime(a) == a + 2

\* Which print of a turn or of a removal attempt raises OSError: none (0),
\* or one of the at most four a turn makes. Only a verbose call prints, and
\* only a write to a closed or full pipe fails.
StderrFaults == 0..4
Faults == IF verbose /\ stderr = "flaky" THEN StderrFaults ELSE {0}

\* The source tree with nothing in it.
EmptyTree == [loc \in Locs |-> NoNode]

\* How many times copy_to is called on the PatternMatcher.
MaxCopyCalls == 2

\* The hosts: a POSIX host whose destination is on the device of the
\* source tree, on another device, or on another device whose filesystem
\* has no hard links; and a Windows host.
Hosts ==
    { [win |-> FALSE, dev |-> 1, links |-> TRUE],
      [win |-> FALSE, dev |-> 2, links |-> TRUE],
      [win |-> FALSE, dev |-> 2, links |-> FALSE],
      [win |-> TRUE, dev |-> 1, links |-> TRUE] }

\* (st_dev, st_ino) of the source files: every file its own inode; a/a and
\* a/b two names of one file; a/a and a/b files of two devices that have
\* the same inode number.
OwnInodes ==
    [loc \in Locs |->
        [dev |-> 1,
         ino |-> IF loc = <<<<"a">>>> THEN 1
                 ELSE IF loc = <<<<"b">>>> THEN 2
                 ELSE IF loc = <<<<"a">>, <<"a">>>> THEN 3
                 ELSE 4]]
SharedInodes ==
    [OwnInodes EXCEPT ![<<<<"a">>, <<"b">>>>] = [dev |-> 1, ino |-> 3]]
SplitInodes ==
    [OwnInodes EXCEPT ![<<<<"a">>, <<"b">>>>] = [dev |-> 2, ino |-> 3]]

InodeMaps(tree) ==
    IF tree[<<<<"a">>, <<"a">>>>].kind = "file"
       /\ tree[<<<<"a">>, <<"b">>>>].kind = "file"
    THEN {OwnInodes, SharedInodes, SplitInodes}
    ELSE {OwnInodes}

\* The source files that are the file (dev, ino).
SourceFilesOf(dev, ino) ==
    {loc \in Locs : /\ fs["A"][loc].kind = "file"
                    /\ inodes[loc] = [dev |-> dev, ino |-> ino]}

\* A regular file found in the destination, with inode number n of the
\* destination's device: a name of a source file when that is a source
\* file's inode, and a file of its own otherwise.
FoundFile(n) ==
    DestFile(destdev, n,
             IF SourceFilesOf(destdev, n) # {} THEN <<destdev, n>>
             ELSE <<0, 0>>)

\* What the destination directory holds before the first copy_to: nothing
\* (and the directory may not exist); a/a, a/b and a link b left by an
\* earlier materialization; a file a and a directory b.
FoundDests ==
    { EmptyDest,
      [loc \in Locs |->
          IF loc = <<<<"a">>>> THEN DestDir
          ELSE IF loc = <<<<"b">>>> THEN DestLink(<<<<"a">>>>)
          ELSE IF loc = <<<<"a">>, <<"a">>>> THEN FoundFile(3)
          ELSE FoundFile(6)],
      [loc \in Locs |->
          IF loc = <<<<"a">>>> THEN FoundFile(7)
          ELSE IF loc = <<<<"b">>>> THEN DestDir
          ELSE DestNone] }

\* A PatternMatcher that has scanned base directory A, and a destination
\* directory that exists or does not, in a process whose sys.stderr is of
\* kind err.
CopyStartOn(err) ==
    /\ cpc = "idle"
    /\ stderr = err
    /\ verbose = FALSE
    /\ \E t \in Trees : fs = [b \in Bases |-> IF b = "A" THEN t ELSE EmptyTree]
    /\ \E p \in IndexPredicates :
         /\ includes = CompileAll(p[1])
         /\ excludes = CompileAll(p[2])
         /\ force_includes = CompileAll(p[3])
    /\ \E items \in ScanChildren("A", fs["A"], <<>>, <<>>) :
         all = DictSetAll(<<>>, items)
    /\ calls = <<[op |-> "add_basedir", base |-> "A"]>>
    /\ ipc = "built"
    /\ yielded = <<>>
    /\ ppc = "built"
    /\ match_path = <<>>
    /\ result = FALSE
    /\ GlobUnused
    /\ \E h \in Hosts :
         /\ IS_WINDOWS = h.win
         /\ destdev = h.dev
         /\ linkable = h.links
    /\ inodes \in InodeMaps(fs["A"])
    /\ dest \in FoundDests
    /\ dest_exists \in {dest # EmptyDest, TRUE}
    /\ before = dest
    /\ next_ino = 10
    /\ remove_dest = FALSE
    /\ always_copy = FALSE
    /\ attempt = 0
    /\ rm_outcomes = <<>>
    /\ slept = 0
    /\ error = "none"
    /\ queue = <<>>
    /\ placed = <<>>
    /\ copied_inodes = <<>>
    /\ ops = <<>>
    /\ ncalls = 0
    /\ RaceUnused
    /\ FilterUnused
    /\ PathUnused

\* A process whose writes to sys.stderr succeed.
CopyStart == CopyStartOn("ok")

\* A process whose writes to sys.stderr can fail (a closed or full pipe).
VerboseStart == CopyStartOn("flaky")

\* copy_to(destdir, always_copy=..., remove_dest=...):
\* `if remove_dest and destdir.exists()` enters _rmtree_with_retry and its
\* `for attempt in range(max_attempts)`.
CopyTo ==
    /\ cpc \in {"idle", "done"}
    /\ ncalls < MaxCopyCalls
    /\ ncalls' = ncalls + 1
    /\ \E rd \in BOOLEAN :
         /\ remove_dest' = rd
         /\ cpc' = IF rd /\ dest_exists /\ 0 < max_attempts
                   THEN "rmtree" ELSE "mkdir"
    /\ always_copy' \in BOOLEAN
    /\ verbose' \in BOOLEAN
    /\ attempt' = 0
    /\ rm_outcomes' = <<>>
    /\ slept' = 0
    /\ queue' = <<>>
    /\ placed' = <<>>
    /\ ops' = <<>>
    /\ before' = dest
    /\ UNCHANGED <<dest_exists, error, envVars, dest, next_ino, copied_inodes>>
    /\ UNCHANGED notCopyVars

\* shutil.rmtree(path) succeeds: _rmtree_with_retry returns.
RmtreeSucceeds ==
    /\ cpc = "rmtree"
    /\ rm_outcomes' = Append(rm_outcomes, "ok")
    /\ dest_exists' = FALSE
    /\ dest' = Rmtree(dest)
    /\ \E k \in Faults :
         IF k = 1
         THEN cpc' = "raised" /\ error' = "OSError(stderr)"
         ELSE cpc' = "mkdir" /\ UNCHANGED error
    /\ UNCHANGED <<remove_dest, attempt, slept, queue, placed, envVars,
                   next_ino, copied_inodes, ops, before, always_copy, verbose,
                   ncalls>>
    /\ UNCHANGED notCopyVars

\* shutil.rmtree(path) raises PermissionError: the handler sleeps, then
\* re-raises on the last attempt, and the loop goes on otherwise.
RmtreePermissionError ==
    /\ cpc = "rmtree"
    /\ rm_outcomes' = Append(rm_outcomes, "PermissionError")
    /\ \E k \in Faults :
         IF k = 1
         THEN \* the print of the handler raises, before the sleep
              /\ cpc' = "raised"
              /\ error' = "OSError(stderr)"
              /\ UNCHANGED <<attempt, slept>>
         ELSE /\ slept' = slept + WaitTime(attempt)
              /\ IF IsLastAttempt(attempt)
                 THEN /\ cpc' = "raised"
                      /\ error' = IF k = 2 THEN "OSError(stderr)"
                                  ELSE "PermissionError"
                      /\ UNCHANGED attempt
                 ELSE IF attempt + 1 < max_attempts
                 THEN /\ attempt' = attempt + 1
                      /\ UNCHANGED <<cpc, error>>
                 ELSE \* the range is exhausted: the function returns
                      /\ cpc' = "mkdir"
                      /\ UNCHANGED <<attempt, error>>
    /\ UNCHANGED <<remove_dest, dest_exists, queue, placed, envVars, destVars,
                   before, always_copy, verbose, ncalls>>
    /\ UNCHANGED notCopyVars

\* shutil.rmtree(path) raises an exception that is no PermissionError (the
\* destination is gone, is no directory, ...): nothing catches it.
RmtreeOtherError ==
    /\ cpc = "rmtree"
    /\ rm_outcomes' = Append(rm_outcomes, "OSError")
    /\ cpc' = "raised"
    /\ error' = "OSError"
    /\ UNCHANGED <<remove_dest, dest_exists, attempt, slept, queue, placed,
                   envVars, destVars, before, always_copy, verbose, ncalls>>
    /\ UNCHANGED notCopyVars

\* A copy_to that keeps the tracker of the call before it.
DestdirMkdir_KeepTracker ==
    /\ cpc = "mkdir"
    /\ dest_exists' = TRUE
    /\ queue' = PatternMatcherMatches(all, includes, excludes, force_includes)
    /\ cpc' = "entries"
    /\ UNCHANGED <<remove_dest, rmVars, error, placed, envVars, destVars,
                   before, always_copy, verbose, ncalls>>
    /\ UNCHANGED notCopyVars

\* destdir.mkdir(parents=True, exist_ok=True), copied_inodes = {}, and the
\* start of the loop over self.matches().
DestdirMkdir ==
    /\ cpc = "mkdir"
    /\ dest_exists' = TRUE
    /\ copied_inodes' = <<>>
    /\ queue' = PatternMatcherMatches(all, includes, excludes, force_includes)
    /\ cpc' = "entries"
    /\ UNCHANGED <<remove_dest, rmVars, error, placed, envVars, dest, next_ino,
                   ops, before, always_copy, verbose, ncalls>>
    /\ UNCHANGED notCopyVars

\* What the turn of the loop that handles the next matched entry starts
\* from, with the k-th print of the turn the one that fails.
Turn(k) == [d |-> dest, next |-> next_ino, tracker |-> copied_inodes,
            ops |-> ops, err |-> "none", verbose |-> verbose, fault |-> k]

\* A loop that notes the exception of a turn and goes on with the next
\* entry.
EndTurn_Continue(w) ==
    /\ dest' = w.d
    /\ next_ino' = w.next
    /\ copied_inodes' = w.tracker
    /\ ops' = w.ops
    /\ error' = w.err
    /\ placed' = IF w.err = "none" THEN Append(placed, Head(queue).key)
                 ELSE placed
    /\ queue' = Tail(queue)
    /\ UNCHANGED <<cpc, remove_dest, dest_exists, rmVars, envVars, before,
                   always_copy, verbose, ncalls>>
    /\ UNCHANGED notCopyVars

\* The end of a turn that left w: the next entry, or the exception leaves
\* copy_to.
EndTurn(w) ==
    /\ dest' = w.d
    /\ next_ino' = w.next
    /\ copied_inodes' = w.tracker
    /\ ops' = w.ops
    /\ IF w.err = "none"
       THEN /\ placed' = Append(placed, Head(queue).key)
            /\ queue' = Tail(queue)
            /\ UNCHANGED <<cpc, error>>
       ELSE /\ cpc' = "raised"
            /\ error' = w.err
            /\ UNCHANGED <<queue, placed>>
    /\ UNCHANGED <<remove_dest, dest_exists, rmVars, envVars, before,
                   always_copy, verbose, ncalls>>
    /\ UNCHANGED notCopyVars

\* One turn of the loop, for a directory: destpath.mkdir(parents=True,
\* exist_ok=True).
PlaceDirectory ==
    /\ cpc = "entries"
    /\ queue # <<>>
    /\ IsDirectoryEntry(Head(queue).entry)
    /\ \E k \in Faults :
         EndTurn(PrintFinally(CopyDirectory(Turn(k),
                                            DestPath(Head(queue).key))))

\* One turn of the loop, for a symbolic link.
PlaceSymlink ==
    /\ cpc = "entries"
    /\ queue # <<>>
    /\ ~IsDirectoryEntry(Head(queue).entry)
    /\ IsSymlinkEntry(Head(queue).entry)
    /\ \E k \in Faults :
         EndTurn(PrintFinally(CopySymlink(Turn(k), Head(queue).entry,
                                          DestPath(Head(queue).key),
                                          remove_dest)))

\* One turn of the loop, for a regular file, on a disk that has room for
\* it or has not.
PlaceRegularFile ==
    /\ cpc = "entries"
    /\ queue # <<>>
    /\ ~IsDirectoryEntry(Head(queue).entry)
    /\ ~IsSymlinkEntry(Head(queue).entry)
    /\ \E full \in BOOLEAN, k \in Faults :
         EndTurn(PrintFinally(CopyRegularFile(Turn(k), Head(queue).entry,
                                              DestPath(Head(queue).key),
                                              always_copy, remove_dest,
                                              IS_WINDOWS, full)))

\* One turn of the loop: the entry is placed at destdir/(destprefix+relpath).
PlaceEntry == PlaceDirectory \/ PlaceSymlink \/ PlaceRegularFile

\* A copy_to that empties the index it has iterated over.
CopyToReturns_EmptiesIndex ==
    /\ cpc = "entries"
    /\ queue = <<>>
    /\ cpc' = "done"
    /\ all' = <<>>
    /\ UNCHANGED <<remove_dest, dest_exists, rmVars, error, queue, placed,
                   envVars, destVars, before, always_copy, verbose, ncalls>>
    /\ UNCHANGED <<globVars, predVars, ipc, fs, calls, yielded, procs,
                   filterVars, pathVars>>

\* The loop is over: copy_to returns.
CopyToReturns ==
    /\ cpc = "entries"
    /\ queue = <<>>
    /\ cpc' = "done"
    /\ UNCHANGED <<remove_dest, dest_exists, rmVars, error, queue, placed,
                   envVars, destVars, before, always_copy, verbose, ncalls>>
    /\ UNCHANGED notCopyVars

CopyNext ==
    \/ CopyTo
    \/ RmtreeSucceeds
    \/ RmtreePermissionError
    \/ RmtreeOtherError
    \/ DestdirMkdir
    \/ PlaceEntry
    \/ CopyToReturns

SpecCopy == CopyStart /\ [][CopyNext]_vars

\* copy_to in a process whose writes to sys.stderr can fail.
SpecVerbose == VerboseStart /\ [][CopyNext]_vars

-----------------------------------------------------------------------------
(* Claims about copy_to (checked under SpecCopy).                          *)

RmtreeCalls == Len(rm_outcomes)
LastOutcome == rm_outcomes[Len(rm_outcomes)]

\* C10: with remove_dest=true and an existing destination the removal is
\* attempted at most 5 times; an attempt follows only a permission-denied
\* failure; any other failure propagates at once; a success ends the loop;
\* a permission-denied failure of the 5th attempt is re-raised, and no
\* entry is placed.
C10_RemovalRetry ==
    /\ RmtreeCalls <= 5
    /\ \A i \in 1..(RmtreeCalls - 1) : rm_outcomes[i] = "PermissionError"
    /\ RmtreeCalls > 0 =>
         /\ remove_dest
         /\ LastOutcome = "OSError" =>
              cpc = "raised" /\ error = "OSError" /\ placed = <<>>
         /\ LastOutcome = "ok" =>
              \/ cpc \in {"mkdir", "entries", "done"} /\ error = "none"
              \/ cpc = "raised" /\ queue # <<>>
         /\ (LastOutcome = "PermissionError" /\ RmtreeCalls < 5) =>
              cpc = "rmtree" /\ error = "none" /\ placed = <<>>
         /\ (LastOutcome = "PermissionError" /\ RmtreeCalls = 5) =>
              cpc = "raised" /\ error = "PermissionError" /\ placed = <<>>

\* Five attempts, each failed with PermissionError, with entries to place.
C10_Reached ==
    /\ rm_outcomes = <<"PermissionError", "PermissionError", "PermissionError",
                       "PermissionError", "PermissionError">>
    /\ cpc = "raised"
    /\ PatternMatcherMatches(all, includes, excludes, force_includes) # <<>>

\* A removal that succeeds at the third attempt, and the entries placed.
C10_ReachedRetrySuccess ==
    /\ rm_outcomes = <<"PermissionError", "PermissionError", "ok">>
    /\ cpc = "done"
    /\ placed # <<>>

-----------------------------------------------------------------------------
(* Claims about the placement of entries (checked under SpecCopy).         *)

\* The entries copy_to iterates over, and those of them that are regular
\* files.
Matched == PatternMatcherMatches(all, includes, excludes, force_includes)
MatchedItems == {Matched[i] : i \in 1..Len(Matched)}
MatchedFiles == {item \in MatchedItems : item.entry.kind = "file"}
MatchedLinks == {item \in MatchedItems : item.entry.kind = "link"}
MatchedPaths == {DestPath(item.key) : item \in MatchedItems}

\* The entries of the index the running call has handled so far, and the
\* regular files among them.
PlacedItems ==
    {all[i] : i \in {k \in 1..Len(all) :
                       \E j \in 1..Len(placed) : placed[j] = all[k].key}}
PlacedFiles == {item \in PlacedItems : item.entry.kind = "file"}

\* The operations of the running call named in `names` made at loc.
OpsAt(loc, names) ==
    {j \in 1..Len(ops) : ops[j].loc = loc /\ ops[j].op \in names}

\* node is the file st: one more name of it.
SameFile(node, st) ==
    node.kind = "file" /\ node.dev = st.dev /\ node.ino = st.ino

\* The selection table of the three strategies.
SelectionTable ==
    IF ~always_copy THEN "hardlink_or_copy_from_source"
    ELSE IF IS_WINDOWS THEN "plain_copy"
    ELSE "copy_preserving_hardlink_groups"

\* C11: every regular file copy_to places (does not skip) is placed by
\* exactly one strategy, the one the selection table gives for always_copy
\* and the host: hardlink-or-copy when always_copy is false, the
\* hardlink-group-preserving copy when it is true on a non-Windows host,
\* the plain copy when it is true on Windows; the links and copies made
\* are those of that strategy.
C11_OneStrategy ==
    /\ \A item \in PlacedFiles :
         LET loc == DestPath(item.key)
         IN  /\ Cardinality(OpsAt(loc, {"skip", "place"})) = 1
             /\ \A j \in OpsAt(loc, {"place"}) : ops[j].how = SelectionTable
             /\ OpsAt(loc, {"place"}) # {} =>
                   Cardinality(OpsAt(loc, {"link", "copy"})) = 1
    /\ \A j \in 1..Len(ops) :
         /\ ops[j].op = "place" => ops[j].how = SelectionTable
         /\ (ops[j].op = "link" /\ ops[j].how = "source") =>
               SelectionTable = "hardlink_or_copy_from_source"
         /\ (ops[j].op = "link" /\ ops[j].how = "prev_dest") =>
               SelectionTable = "copy_preserving_hardlink_groups"
         /\ ops[j].op = "fallback" =>
               SelectionTable = "hardlink_or_copy_from_source"

\* A call on a non-Windows host with always_copy that has copied one file
\* and linked another to the copy.
C11_Reached ==
    /\ cpc = "done"
    /\ always_copy
    /\ ~IS_WINDOWS
    /\ \E j \in 1..Len(ops) : ops[j].op = "link" /\ ops[j].how = "prev_dest"
    /\ \E j \in 1..Len(ops) : ops[j].op = "copy"

\* A call on Windows with always_copy that has placed two files.
C11_ReachedWindows ==
    /\ cpc = "done"
    /\ always_copy
    /\ IS_WINDOWS
    /\ Cardinality(PlacedFiles) >= 2

\* The destination of a regular file is a name of the source file, or,
\* where no hard link from the source can be made, a file of its own with
\* the content of the source file.
LinkedOrCopied(item) ==
    LET node == Lstat(dest, DestPath(item.key))
        st == SrcStat(item.entry)
    IN  /\ node.kind = "file"
        /\ node.data = SrcData(st)
        /\ \/ SameFile(node, st)
           \/ ~(linkable /\ st.dev = destdev)

\* C12: after a successful copy_to with always_copy=false the destination
\* of every matched regular file shares its inode with the source file,
\* or, when the hard link could not be made, is a separate file that holds
\* a copy; in both cases its content is the content of the source.
C12_LinkedOrCopied ==
    (cpc = "done" /\ ~always_copy) =>
        \A item \in MatchedFiles : LinkedOrCopied(item)

\* A file found in the destination that the skip test takes for the
\* source file, which it is not: it has the inode number of the source
\* file and is on another device.
Lookalikes ==
    {item \in MatchedFiles :
        LET node == Stat(before, DestPath(item.key))
            st == SrcStat(item.entry)
        IN  node.kind = "file" /\ node.ino = st.ino /\ node.dev # st.dev}

\* C12 for the calls that find no such file in the destination.
C12_ExceptLookalikes ==
    (cpc = "done" /\ ~always_copy /\ (remove_dest \/ Lookalikes = {})) =>
        \A item \in MatchedFiles : LinkedOrCopied(item)

\* A call that has linked one file to the source and copied another, of
\* another device.
C12_Reached ==
    /\ cpc = "done"
    /\ ~always_copy
    /\ \E j \in 1..Len(ops) : ops[j].op = "link" /\ ops[j].how = "source"
    /\ \E j \in 1..Len(ops) : ops[j].op = "copy"

\* The nodes are two names of one file of the destination.
SameInode(m, n) ==
    m.kind = "file" /\ n.kind = "file" /\ m.dev = n.dev /\ m.ino = n.ino

\* The regular files of the source tree.
SourceFiles == {loc \in Locs : fs["A"][loc].kind = "file"}

\* C13: after a successful copy_to with always_copy=true on a non-Windows
\* host, the destinations of two matched regular files share an inode
\* exactly when the two source files are one file (same device, same inode
\* number), and no destination shares an inode with a file of the source
\* tree; with remove_dest=true, and with remove_dest=false over what an
\* earlier copy_to left.
C13_GroupsPreserved ==
    (cpc = "done" /\ always_copy /\ ~IS_WINDOWS) =>
        /\ \A x, y \in MatchedFiles :
             SameInode(Lstat(dest, DestPath(x.key)),
                       Lstat(dest, DestPath(y.key)))
               <=> SrcStat(x.entry) = SrcStat(y.entry)
        /\ \A x \in MatchedFiles, loc \in SourceFiles :
             ~SameFile(Lstat(dest, DestPath(x.key)), inodes[loc])

\* A second call, with always_copy and without remove_dest, over a
\* destination whose a/a and a/b an earlier call linked to the one source
\* file they are names of: they are one file again, and not the source
\* file.
C13_Reached ==
    /\ cpc = "done"
    /\ always_copy
    /\ ~IS_WINDOWS
    /\ ~remove_dest
    /\ ncalls = 2
    /\ inodes = SharedInodes
    /\ SameFile(before[<<<<"a">>, <<"a">>>>], inodes[<<<<"a">>, <<"a">>>>])
    /\ SameFile(before[<<<<"a">>, <<"b">>>>], inodes[<<<<"a">>, <<"b">>>>])
    /\ SameInode(dest[<<<<"a">>, <<"a">>>>], dest[<<<<"a">>, <<"b">>>>])
    /\ \E j \in 1..Len(ops) : ops[j].op = "link" /\ ops[j].how = "prev_dest"

\* The same with remove_dest, after a removal that succeeded.
C13_ReachedRemoved ==
    /\ cpc = "done"
    /\ always_copy
    /\ ~IS_WINDOWS
    /\ remove_dest
    /\ rm_outcomes # <<>>
    /\ inodes = SharedInodes
    /\ SameInode(dest[<<<<"a">>, <<"a">>>>], dest[<<<<"a">>, <<"b">>>>])

\* The matched regular files whose destination was, when the running call
\* began, a name of the source file.
AlreadyLinked ==
    {item \in PlacedFiles \cup
              {q \in {queue[i] : i \in 1..Len(queue)} : q.entry.kind = "file"} :
        SameFile(Lstat(before, DestPath(item.key)), SrcStat(item.entry))}

\* C14: a second copy_to with always_copy=false and remove_dest=false over
\* a destination the first call linked to the unchanged source does not
\* raise, and unlinks, links or copies no regular file: each is skipped and
\* stays the file it was.
C14_RerunSkips ==
    (ncalls = 2 /\ ~always_copy /\ ~remove_dest
     /\ cpc \in {"entries", "done", "raised"}) =>
        /\ \A item \in AlreadyLinked :
             LET loc == DestPath(item.key)
             IN  /\ OpsAt(loc, {"unlink", "place", "link", "fallback",
                                "copy", "mkdir", "symlink"}) = {}
                 /\ dest[loc] = before[loc]
                 /\ item \in PlacedFiles => OpsAt(loc, {"skip"}) # {}
        /\ (\A item \in MatchedFiles :
               SameFile(Lstat(before, DestPath(item.key)), SrcStat(item.entry)))
           => /\ cpc # "raised"
              /\ \A j \in 1..Len(ops) : ops[j].op \in {"skip", "unlink", "symlink"}
              /\ \A j \in 1..Len(ops) :
                   ops[j].op \in {"unlink", "symlink"} =>
                     \E item \in MatchedLinks : DestPath(item.key) = ops[j].loc

\* A second call over a destination whose two files the first call linked
\* to the source: both were skipped.
C14_Reached ==
    /\ ncalls = 2
    /\ ~always_copy
    /\ ~remove_dest
    /\ cpc = "done"
    /\ Cardinality(AlreadyLinked) >= 2
    /\ AlreadyLinked = MatchedFiles
    /\ Cardinality({j \in 1..Len(ops) : ops[j].op = "skip"}) >= 2
    /\ before[<<<<"a">>, <<"a">>>>].kind = "file"

\* C16: after a successful copy_to with remove_dest=true every matched
\* regular file is at its relative path in the destination with the
\* content of the source file, and every matched symbolic link (a link to
\* a directory too) is there as a symbolic link with the target string of
\* the source link; a link is never replaced by what it points to.
C16_RoundTrip ==
    (cpc = "done" /\ remove_dest) =>
        /\ \A item \in MatchedFiles :
             LET node == Lstat(dest, DestPath(item.key))
             IN  node.kind = "file" /\ node.data = SrcData(SrcStat(item.entry))
        /\ \A item \in MatchedLinks :
             LET node == Lstat(dest, DestPath(item.key))
             IN  /\ node.kind = "link"
                 /\ node.target = fs["A"][item.entry.loc].target

\* A tree with the file a/a and the link b to the directory a, copied over
\* a destination that was removed first.
C16_Reached ==
    /\ cpc = "done"
    /\ remove_dest
    /\ rm_outcomes # <<>>
    /\ fs["A"][<<<<"a">>>>].kind = "dir"
    /\ dest[<<<<"a">>, <<"a">>>>].kind = "file"
    /\ dest[<<<<"b">>>>] = DestLink(<<<<"a">>>>)
    /\ Cardinality(MatchedLinks) = 1
    /\ MatchedFiles # {}

\* loc is the destination path of a matched entry or a directory above
\* one.
IsMatchedOrAbove(loc) ==
    \E path \in MatchedPaths :
        Len(loc) <= Len(path) /\ SubSeq(path, 1, Len(loc)) = loc

\* C17: after a successful copy_to with remove_dest=true the destination
\* holds only what this call put there, the matched entries and the
\* directories made above them; nothing that was under the destination
\* before the call is still there.
C17_OnlyWhatWasPlaced ==
    (cpc = "done" /\ remove_dest) =>
        \A loc \in Locs :
            dest[loc].kind # "none" =>
                /\ IsMatchedOrAbove(loc)
                /\ OpsAt(loc, {"mkdir", "symlink", "link", "copy"}) # {}

\* A call that removed a destination holding entries that are not matched
\* and entries that are, and placed its own.
C17_Reached ==
    /\ cpc = "done"
    /\ remove_dest
    /\ rm_outcomes # <<>>
    /\ placed # <<>>
    /\ \E loc \in Locs : before[loc].kind # "none" /\ ~IsMatchedOrAbove(loc)
    /\ \E loc \in Locs : before[loc].kind = "file" /\ dest[loc].kind = "file"

\* The entry the running call is handling or has handled: those placed,
\* and the one whose placement raised.
HandledItems ==
    PlacedItems \cup
    (IF cpc = "raised" /\ queue # <<>> THEN {Head(queue)} ELSE {})

\* The destination paths of the entries the call iterates over (those
\* handled and those still to come).
IteratedPaths ==
    {DestPath(item.key) :
        item \in PlacedItems \cup {queue[i] : i \in 1..Len(queue)}}

\* C18: with remove_dest=false copy_to unlinks a file or symbolic link
\* that was at a destination path exactly when a matched regular file or
\* symbolic link is placed at that path and is not skipped as already
\* linked, and leaves every entry that was in the destination at a path no
\* matched entry has as it was.
C18_UnlinkOnlyStale ==
    (~remove_dest /\ cpc \in {"entries", "done", "raised"}) =>
        /\ \A j \in 1..Len(ops) :
             ops[j].op = "unlink" =>
               /\ before[ops[j].loc].kind \in {"file", "link"}
               /\ OpsAt(ops[j].loc, {"skip"}) = {}
               /\ \E item \in HandledItems :
                    /\ DestPath(item.key) = ops[j].loc
                    /\ item.entry.kind \in {"file", "link"}
        /\ \A item \in HandledItems :
             LET loc == DestPath(item.key)
             IN  (/\ item.entry.kind \in {"file", "link"}
                  /\ before[loc].kind \in {"file", "link"}
                  /\ OpsAt(loc, {"skip"}) = {})
                 => Cardinality(OpsAt(loc, {"unlink"})) = 1
        /\ \A loc \in Locs :
             (before[loc].kind # "none" /\ loc \notin IteratedPaths)
               => dest[loc] = before[loc]

\* A call without remove_dest that unlinked a file and a symbolic link it
\* found, and left a file no matched entry has the path of.
C18_Reached ==
    /\ ~remove_dest
    /\ cpc = "done"
    /\ \E j \in 1..Len(ops) :
         ops[j].op = "unlink" /\ before[ops[j].loc].kind = "link"
    /\ \E j \in 1..Len(ops) :
         ops[j].op = "unlink" /\ before[ops[j].loc].kind = "file"
    /\ \E loc \in Locs :
         before[loc].kind = "file" /\ loc \notin IteratedPaths

\* C19: a hard link that cannot be made during copy_to (another device, a
\* filesystem without hard links, something at the destination) is made
\* up for by a content copy and never reaches the caller as an error,
\* under every strategy that makes hard links, the link to an earlier copy
\* of the hardlink-group-preserving strategy included.
C19_LinkFailureRecovered ==
    /\ error # "OSError(os.link)"
    /\ \A item \in PlacedFiles :
         LET loc == DestPath(item.key)
         IN  OpsAt(loc, {"place"}) # {} => OpsAt(loc, {"link", "copy"}) # {}

\* C19 for the hardlink-or-copy strategy alone: the failure of the link to
\* the source is always followed by the plain copy.
C19_ExceptInternalLink ==
    /\ ~always_copy => error # "OSError(os.link)"
    /\ \A item \in PlacedFiles :
         LET loc == DestPath(item.key)
         IN  /\ OpsAt(loc, {"place"}) # {} => OpsAt(loc, {"link", "copy"}) # {}
             /\ OpsAt(loc, {"fallback"}) # {} => OpsAt(loc, {"copy"}) # {}

\* A call under hardlink-or-copy whose link to the source failed and that
\* placed the file with a copy.
C19_Reached ==
    /\ cpc = "done"
    /\ ~always_copy
    /\ \E j \in 1..Len(ops) : ops[j].op = "fallback"
    /\ \E j \in 1..Len(ops) : ops[j].op = "copy"

\* The keys of the entries the loop has still to handle.
QueuedKeys == [i \in 1..Len(queue) |-> queue[i].key]

\* What is true when the placement of an entry has raised: the entries
\* before it were handled in order and are in the destination, the entry
\* and those after it are still to come, and no operation was made at the
\* path of a later entry (unless it is the path of a directory above one
\* that was handled).
AbortedAtEntry ==
    /\ placed \o QueuedKeys = [i \in 1..Len(Matched) |-> Matched[i].key]
    /\ \A item \in PlacedItems : Lstat(dest, DestPath(item.key)).kind # "none"
    /\ \A j \in 1..Len(ops) :
         \E item \in HandledItems :
            LET path == DestPath(item.key)
            IN  /\ Len(ops[j].loc) <= Len(path)
                /\ SubSeq(path, 1, Len(ops[j].loc)) = ops[j].loc

\* C20: when the placement of an entry fails, the error leaves copy_to at
\* once: copy_to does nothing more (no later entry is handled), and what
\* was placed before stays in the destination.
C20_AbortOnEntryError ==
    [][/\ (error # "none" => cpc = "raised") /\ (error' # "none" => cpc' = "raised")
       /\ cpc # "raised"
       /\ (cpc' = "raised" /\ queue' # <<>>) => AbortedAtEntry']_vars

\* A call whose second or later entry raised, after it had placed a file.
C20_Reached ==
    /\ cpc = "raised"
    /\ queue # <<>>
    /\ Len(queue) >= 2
    /\ PlacedFiles # {}
    /\ error \in {"IsADirectoryError", "FileExistsError", "NotADirectoryError",
                  "OSError(ENOSPC)"}

-----------------------------------------------------------------------------
(* Two processes that run copy_to(destdir, always_copy=False,              *)
(* remove_dest=False) at the same time, from the same source tree into the *)
(* same destination. Each system call of _copy_regular_file is a step of   *)
(* its own, so that the calls of the two processes interleave.             *)

Procs == {1, 2}

\* The source trees of regular files and directories.
RaceTrees == {t \in Trees : \A loc \in Locs : t[loc].kind # "link"}

\* The hosts that are not Windows.
RaceHosts == {h \in Hosts : ~h.win}

\* What the two processes find at the destination: nothing, or what an
\* earlier materialization of an older source tree of the same shape left
\* there (the directories, and a stale file for every file).
RaceDests(tree) ==
    { EmptyDest,
      [loc \in Locs |->
          IF tree[loc].kind = "dir" THEN DestDir
          ELSE IF tree[loc].kind = "file"
          THEN FoundFile(IF Len(loc) = 1 THEN 6 ELSE 7)
          ELSE DestNone] }

\* Every process p has scanned base directory bases[p] and made destdir,
\* and is at the top of the loop over the matched entries. The base
\* directories hold trees of the same names.
RaceStartWith(bases) ==
    /\ \E t \in RaceTrees :
         fs = [b \in Bases |->
                  IF \E p \in Procs : bases[p] = b THEN t ELSE EmptyTree]
    /\ \E p \in IndexPredicates :
         /\ includes = CompileAll(p[1])
         /\ excludes = CompileAll(p[2])
         /\ force_includes = CompileAll(p[3])
    /\ \E items \in ScanChildren("A", fs["A"], <<>>, <<>>) :
         all = DictSetAll(<<>>, items)
    /\ calls = <<[op |-> "add_basedir", base |-> "A"]>>
    /\ ipc = "built"
    /\ yielded = <<>>
    /\ ppc = "built"
    /\ match_path = <<>>
    /\ result = FALSE
    /\ GlobUnused
    /\ \E h \in RaceHosts :
         /\ IS_WINDOWS = h.win
         /\ destdev = h.dev
         /\ linkable = h.links
    /\ inodes \in InodeMaps(fs["A"])
    /\ dest \in RaceDests(fs["A"])
    /\ dest_exists = TRUE
    /\ before = dest
    /\ next_ino = 10
    /\ cpc = "unused"
    /\ remove_dest = FALSE
    /\ always_copy = FALSE
    /\ attempt = 0
    /\ rm_outcomes = <<>>
    /\ slept = 0
    /\ error = "none"
    /\ queue = <<>>
    /\ placed = <<>>
    /\ copied_inodes = <<>>
    /\ ops = <<>>
    /\ ncalls = 0
    /\ verbose = FALSE
    /\ stderr = "ok"
    /\ FilterUnused
    /\ PathUnused
    /\ procs = [p \in Procs |->
                  [pc |-> "next",
                   base |-> bases[p],
                   queue |-> PatternMatcherMatches(all, includes, excludes,
                                                   force_includes),
                   err |-> "none"]]

\* Both processes have scanned base directory A.
RaceStart == RaceStartWith([p \in Procs |-> "A"])

\* The processes have scanned two base directories: process 1 A, process
\* 2 B.
SharedStart == RaceStartWith([p \in Procs |-> IF p = 1 THEN "A" ELSE "B"])

\* What the steps of the two processes leave alone.
notRaceVars ==
    <<globVars, predVars, indexVars, cpc, remove_dest, dest_exists, rmVars,
      error, queue, placed, envVars, copied_inodes, ops, before, always_copy,
      verbose, ncalls, filterVars, pathVars>>

\* The entry process p is placing, and its destpath.
RaceEntry(p) == Head(procs[p].queue).entry
RacePath(p) == DestPath(Head(procs[p].queue).key)

\* os.stat of the file at loc of the tree below base: the files of base
\* directory B are files of their own, not those of A.
StatBelow(base, loc) ==
    IF base = "A" THEN inodes[loc] ELSE [inodes[loc] EXCEPT !.ino = @ + 20]

\* os.stat(direntry.path) of the entry process p is placing.
RaceStat(p) == StatBelow(procs[p].base, RaceEntry(p).loc)

\* The destination as a step of process p finds it.
RaceTurn == [d |-> dest, next |-> next_ino, tracker |-> <<>>, ops |-> <<>>,
             err |-> "none", verbose |-> FALSE, fault |-> 0]

\* Process p goes to pc; the shared destination becomes what w holds.
RaceGoto(p, pc, w) ==
    /\ procs' = [procs EXCEPT ![p].pc = pc]
    /\ dest' = w.d
    /\ next_ino' = w.next
    /\ UNCHANGED notRaceVars

\* Process p is done with its entry and turns to the next one.
RaceNextEntry(p, w) ==
    /\ procs' = [procs EXCEPT ![p].pc = "next", ![p].queue = Tail(@)]
    /\ dest' = w.d
    /\ next_ino' = w.next
    /\ UNCHANGED notRaceVars

\* The exception of w leaves the copy_to of process p.
RaceRaise(p, w) ==
    /\ procs' = [procs EXCEPT ![p].pc = "raised", ![p].err = w.err]
    /\ dest' = w.d
    /\ next_ino' = w.next
    /\ UNCHANGED notRaceVars

\* A directory: destpath.mkdir(parents=True, exist_ok=True).
RaceMkdir(p) ==
    /\ procs[p].pc = "next"
    /\ procs[p].queue # <<>>
    /\ IsDirectoryEntry(RaceEntry(p))
    /\ LET w == PathMkdir(RaceTurn, RacePath(p))
       IN  IF w.err = "none" THEN RaceNextEntry(p, w) ELSE RaceRaise(p, w)

\* A regular file, _copy_regular_file: `not always_copy and
\* destpath.exists()`.
RaceExists(p) ==
    /\ procs[p].pc = "next"
    /\ procs[p].queue # <<>>
    /\ ~IsDirectoryEntry(RaceEntry(p))
    /\ ~IsSymlinkEntry(RaceEntry(p))
    /\ RaceGoto(p, IF PathExists(dest, RacePath(p)) THEN "stat" ELSE "stale",
                RaceTurn)

\* os.stat(destpath).st_ino == os.stat(direntry.path).st_ino: the skip, or
\* FileNotFoundError when destpath is gone by now.
RaceSkipTest(p) ==
    /\ procs[p].pc = "stat"
    /\ IF ~PathExists(dest, RacePath(p))
       THEN RaceRaise(p, Fail(RaceTurn, "FileNotFoundError"))
       ELSE IF Stat(dest, RacePath(p)).ino = RaceStat(p).ino
       THEN RaceNextEntry(p, RaceTurn)
       ELSE RaceGoto(p, "stale", RaceTurn)

\* `not remove_dest and (destpath.exists() or destpath.is_symlink())`
RaceStaleTest(p) ==
    /\ procs[p].pc = "stale"
    /\ RaceGoto(p, IF IsStale(dest, RacePath(p)) THEN "unlink" ELSE "parent",
                RaceTurn)

\* os.unlink(destpath)
RaceUnlink(p) ==
    /\ procs[p].pc = "unlink"
    /\ LET w == OsUnlink(RaceTurn, RacePath(p))
       IN  IF w.err = "none" THEN RaceGoto(p, "parent", w) ELSE RaceRaise(p, w)

\* destpath.parent.mkdir(parents=True, exist_ok=True)
RaceParentMkdir(p) ==
    /\ procs[p].pc = "parent"
    /\ LET w == PathMkdir(RaceTurn, Front(RacePath(p)))
       IN  IF w.err = "none" THEN RaceGoto(p, "link", w) ELSE RaceRaise(p, w)

\* _hardlink_or_copy_from_source: os.link(src, destpath)
RaceLink(p) ==
    /\ procs[p].pc = "link"
    /\ LET st == RaceStat(p)
           w == OsLink(RaceTurn, st.dev, st.ino, SrcData(st), RacePath(p),
                       "source")
       IN  IF w.err = "none" THEN RaceNextEntry(p, w)
           ELSE RaceGoto(p, "copy", RaceTurn)

\* _hardlink_or_copy_from_source: `except OSError`, _plain_copy.
RaceFallbackCopy(p) ==
    /\ procs[p].pc = "copy"
    /\ LET w == PlainCopy(RaceTurn, RaceStat(p), RacePath(p), FALSE)
       IN  IF w.err = "none" THEN RaceNextEntry(p, w) ELSE RaceRaise(p, w)

\* The loop is over: the copy_to of process p returns.
RaceReturns(p) ==
    /\ procs[p].pc = "next"
    /\ procs[p].queue = <<>>
    /\ RaceGoto(p, "done", RaceTurn)

RaceNext ==
    \E p \in Procs :
        \/ RaceMkdir(p)
        \/ RaceExists(p)
        \/ RaceSkipTest(p)
        \/ RaceStaleTest(p)
        \/ RaceUnlink(p)
        \/ RaceParentMkdir(p)
        \/ RaceLink(p)
        \/ RaceFallbackCopy(p)
        \/ RaceReturns(p)

SpecRace == RaceStart /\ [][RaceNext]_vars

\* The two processes materialize two source trees into one destination.
SpecShared == SharedStart /\ [][RaceNext]_vars

-----------------------------------------------------------------------------
(* Claims about concurrent calls (checked under SpecRace).                 *)

\* C15: when two processes run copy_to with always_copy=false and
\* remove_dest=false on the same source tree and destination, then under
\* every interleaving of their steps neither call raises, and when both
\* have returned every matched regular file is at the destination with
\* the content of the source file.
C15_Converges ==
    /\ \A p \in Procs : procs[p].pc # "raised"
    /\ (\A p \in Procs : procs[p].pc = "done") =>
         \A item \in MatchedFiles :
            LET node == Lstat(dest, DestPath(item.key))
            IN  node.kind = "file" /\ node.data = SrcData(SrcStat(item.entry))

\* Both calls have returned, each having placed or skipped two files, over
\* a destination that was empty.
C15_Reached ==
    /\ \A p \in Procs : procs[p].pc = "done"
    /\ before = EmptyDest
    /\ Cardinality(MatchedFiles) >= 2
    /\ \A item \in MatchedFiles :
          SameFile(Lstat(dest, DestPath(item.key)), SrcStat(item.entry))

\* The second process fell back to the copy because the first had made
\* the link in the meantime, and shutil.copy2 found source and destination
\* to be one file.
C15_SameFileRaised ==
    /\ before = EmptyDest
    /\ \E p \in Procs : procs[p].pc = "raised" /\ procs[p].err = "SameFileError"

-----------------------------------------------------------------------------
(* filter_artifacts (fetch_artifacts.py): include and exclude patterns     *)
(* over a flat set of artifact names. A pattern matches a name that        *)
(* contains it.                                                            *)

MaxFilterPatterns == 2

\* The words the artifact names and the patterns are made of.
Foo == <<"f", "o", "o">>
Bar == <<"b", "a", "r">>
Test == <<"t", "e", "s", "t">>
Run == <<"r", "u", "n">>

ArtifactNames ==
    {stem \o <<"_">> \o kind : stem \in {Foo, Bar}, kind \in {Test, Run}}

FilterPatterns == {Foo, Bar, Test, Run, <<"o", "_", "t">>, <<"x">>}

\* Pattern p occurs somewhere in name.
PatternSearch(p, name) ==
    \E i \in 1..(Len(name) - Len(p) + 1) :
        SubSeq(name, i, i + Len(p) - 1) = p

\* A variant that drops every name when includes is empty.
FilterArtifacts_EmptyIncludesDropAll(names, incl, excl) ==
    {a \in names :
        /\ \E i \in 1..Len(incl) : PatternSearch(incl[i], a)
        /\ \A i \in 1..Len(excl) : ~PatternSearch(excl[i], a)}

\* filter_artifacts(artifacts, includes, excludes)
FilterArtifacts(names, incl, excl) ==
    {a \in names :
        /\ incl = <<>> \/ \E i \in 1..Len(incl) : PatternSearch(incl[i], a)
        /\ \A i \in 1..Len(excl) : ~PatternSearch(excl[i], a)}

\* Before the call: a set of names and two lists of patterns.
FilterStart ==
    /\ fpc = "start"
    /\ artifacts \in SUBSET ArtifactNames
    /\ filter_includes \in SeqsUpTo(FilterPatterns, MaxFilterPatterns)
    /\ filter_excludes \in SeqsUpTo(FilterPatterns, MaxFilterPatterns)
    /\ filtered = {}
    /\ GlobUnused
    /\ PredUnused
    /\ IndexUnused
    /\ CopyUnused
    /\ RaceUnused
    /\ PathUnused

FilterArtifactsCall ==
    /\ fpc = "start"
    /\ filtered' = FilterArtifacts(artifacts, filter_includes, filter_excludes)
    /\ fpc' = "done"
    /\ UNCHANGED <<artifacts, filter_includes, filter_excludes>>
    /\ UNCHANGED <<globVars, predVars, indexVars, copyVars, procs, pathVars>>

FilterNext == FilterArtifactsCall

SpecFilter == FilterStart /\ [][FilterNext]_vars

-----------------------------------------------------------------------------
(* Claims about filter_artifacts (checked under SpecFilter).               *)

\* Name a matches one of the patterns of list l.
MatchesAny(l, a) == \E i \in 1..Len(l) : PatternSearch(l[i], a)

\* C21: filter_artifacts retains exactly the names that match at least one
\* include (or includes is empty) and match no exclude; of foo_test,
\* foo_run, bar_test and bar_run, includes [foo] and excludes [test] retain
\* foo_run only, and two empty lists retain every name.
C21_FilterArtifacts ==
    fpc = "done" =>
        /\ \A a \in ArtifactNames :
              a \in filtered <=>
                 /\ a \in artifacts
                 /\ filter_includes = <<>> \/ MatchesAny(filter_includes, a)
                 /\ ~MatchesAny(filter_excludes, a)
        /\ (artifacts = ArtifactNames /\ filter_includes = <<Foo>>
              /\ filter_excludes = <<Test>>) =>
                 filtered = {Foo \o <<"_">> \o Run}
        /\ (filter_includes = <<>> /\ filter_excludes = <<>>) =>
              filtered = artifacts

\* The four names were filtered with two empty lists, and all are retained.
C21_Reached ==
    /\ fpc = "done"
    /\ artifacts = ArtifactNames
    /\ filter_includes = <<>>
    /\ filter_excludes = <<>>
    /\ filtered = ArtifactNames

-----------------------------------------------------------------------------
(* Claims about the waits of the removal (checked under SpecCopy).         *)

\* The delays after the failed attempts 0 .. n-1, added up.
RECURSIVE SumWaits(_)
SumWaits(n) == IF n <= 0 THEN 0 ELSE SumWaits(n - 1) + WaitTime(n - 1)

\* The shutil.rmtree calls that raised PermissionError.
FailedAttempts ==
    Cardinality({i \in 1..RmtreeCalls : rm_outcomes[i] = "PermissionError"})

\* Every attempt of the removal failed with PermissionError and the last
\* one was re-raised.
AllAttemptsFailed ==
    /\ RmtreeCalls = max_attempts
    /\ LastOutcome = "PermissionError"
    /\ cpc = "raised"

\* C22: in a removal where every attempt fails with permission denied, the
\* process sleeps only between attempts (so not after the last one), the
\* delay after failed attempt i is base_delay * (i + 2), and the total wait
\* before the failure is propagated is about 4.5 * base_delay (between 4
\* and 5 times, in the model's unit of one base_delay).
C22_WaitsBetweenAttempts ==
    AllAttemptsFailed =>
        /\ slept = SumWaits(max_attempts - 1)
        /\ 4 <= slept /\ slept <= 5

\* What the code does: it sleeps after every failed attempt, the last one
\* included, base_delay * (i + 2) after attempt i.
C22_WaitsAfterEveryFailure == slept = SumWaits(FailedAttempts)

\* Five failed attempts, and 2 + 3 + 4 + 5 + 6 = 20 base delays slept when
\* the PermissionError leaves copy_to.
C22_Reached == AllAttemptsFailed /\ error = "PermissionError" /\ slept = 20

-----------------------------------------------------------------------------
(* Claims about the verbose flag (checked under SpecVerbose, where a write *)
(* to sys.stderr can fail, and under SpecCopy, where it cannot).           *)

\* What the turn for the next matched entry makes of world w.
HandleEntry(w, full) ==
    LET entry == Head(queue).entry
        loc == DestPath(Head(queue).key)
    IN  IF IsDirectoryEntry(entry) THEN CopyDirectory(w, loc)
        ELSE IF IsSymlinkEntry(entry)
        THEN CopySymlink(w, entry, loc, remove_dest)
        ELSE CopyRegularFile(w, entry, loc, always_copy, remove_dest,
                             IS_WINDOWS, full)

\* The same turn of a call with verbose=false.
QuietTurn(full) == HandleEntry([Turn(0) EXCEPT !.verbose = FALSE], full)

\* C24: the verbose flag is observability only: every turn of the loop
\* makes the filesystem operations, chooses the strategy and the fallback,
\* and leaves the destination and the error that the same turn of a call
\* with verbose=false makes, chooses and leaves, and no call ends in an
\* error of its printing.
C24_VerboseIsObservabilityOnly ==
    [][/\ error' # "OSError(stderr)"
       /\ (cpc = "entries" /\ queue # <<>>) =>
             \E full \in BOOLEAN :
                 LET quiet == QuietTurn(full)
                 IN  /\ dest' = quiet.d
                     /\ ops' = quiet.ops
                     /\ copied_inodes' = quiet.tracker
                     /\ error' = quiet.err]_vars

\* A verbose call into an empty destination on the source's device, where
\* links can be made, has returned, and a file of that device was copied by
\* the fallback with no link attempted: the print before os.link raised.
C24_Reached ==
    /\ cpc = "done"
    /\ verbose
    /\ ~always_copy
    /\ linkable
    /\ before = EmptyDest
    /\ \E item \in PlacedFiles :
          LET loc == DestPath(item.key)
              st == SrcStat(item.entry)
          IN  /\ st.dev = destdev
              /\ OpsAt(loc, {"fallback"}) # {}
              /\ OpsAt(loc, {"link"}) = {}
              /\ Lstat(dest, loc).kind = "file"
              /\ Lstat(dest, loc).ino # st.ino

-----------------------------------------------------------------------------
(* Claims about the tracker of hard link groups (checked under SpecCopy).  *)

\* The files the destination held when the running call began.
FilesBefore == {loc \in Locs : before[loc].kind = "file"}

\* C25: the (device, inode) tracker is empty when the loop of a copy_to
\* call begins, whatever the calls before it recorded, and a file placed
\* by a call with always_copy=true shares its inode with no file the
\* destination held when the call began: files of different calls are
\* never linked together.
C25_TrackerPerCall ==
    /\ (cpc = "entries" /\ placed = <<>>) => copied_inodes = <<>>
    /\ (always_copy /\ cpc \in {"entries", "done", "raised"}) =>
          \A item \in PlacedFiles, loc \in FilesBefore :
              LET node == Lstat(dest, DestPath(item.key))
              IN  node.kind = "file" =>
                     ~(node.dev = before[loc].dev /\ node.ino = before[loc].ino)

\* A second call with always_copy=true has returned; the call before it
\* had copied two names of one file and recorded them, and this one
\* placed the two names again, linked to each other and to no file of the
\* first call.
C25_Reached ==
    /\ ncalls = 2
    /\ cpc = "done"
    /\ always_copy
    /\ ~remove_dest
    /\ \E x \in PlacedFiles, y \in PlacedFiles :
          LET lx == DestPath(x.key)
              ly == DestPath(y.key)
          IN  /\ lx # ly
              /\ {lx, ly} \subseteq FilesBefore
              /\ before[lx].ino = before[ly].ino
              /\ before[lx].ino >= 10
              /\ OpsAt(ly, {"link"}) # {}
              /\ Lstat(dest, lx).ino = Lstat(dest, ly).ino
              /\ Lstat(dest, lx).ino # before[lx].ino

-----------------------------------------------------------------------------
(* Claims about the index during copy_to (checked under SpecCopy).         *)

\* C26: no step of copy_to (its own iteration of matches() included) adds,
\* removes or replaces an index entry or changes a pattern list, so every
\* iteration of matches() yields the same sequence: the loop of every
\* copy_to call starts with all the pairs matches() yields for the index
\* as it was built.
C26_IndexFrozen ==
    [][/\ all' = all
       /\ includes' = includes
       /\ excludes' = excludes
       /\ force_includes' = force_includes
       /\ (cpc' = "entries" /\ placed' = <<>>) =>
             queue' = PatternMatcherMatches(all, includes, excludes,
                                            force_includes)]_vars

\* The loop of a second copy_to call begins, after a first call that has
\* returned, over a destination that is not empty, with the whole
\* non-empty sequence of matched entries.
C26_Reached ==
    /\ ncalls = 2
    /\ cpc = "entries"
    /\ placed = <<>>
    /\ before # EmptyDest
    /\ queue # <<>>
    /\ queue = PatternMatcherMatches(all, includes, excludes, force_includes)

-----------------------------------------------------------------------------
(* Claims about filtering during copy_to (checked under SpecCopy).         *)

\* The predicate of the PatternMatcher accepts the relative path key.
Accepts(key) == MatchPredicateMatches(includes, excludes, force_includes, key)

\* The index entries that are not directories and lie below a directory.
IsBelowDirectory(item) ==
    item.entry.kind \in {"file", "link"} /\ Len(DestPath(item.key)) > 1

\* C27: filtering is per entry: the loop of copy_to iterates over exactly
\* the index entries whose own relative path the predicate accepts, a call
\* that returns has placed exactly those, and a file or link below a
\* directory is then at the destination, in a directory, whether or not
\* the directory's own path was accepted.
C27_NoPruning ==
    /\ (cpc = "entries" /\ placed = <<>>) =>
          \A i \in 1..Len(all) :
              (\E j \in 1..Len(queue) : queue[j] = all[i])
                  <=> Accepts(all[i].key)
    /\ cpc = "done" =>
          /\ \A i \in 1..Len(all) :
                (\E j \in 1..Len(placed) : placed[j] = all[i].key)
                    <=> Accepts(all[i].key)
          /\ \A item \in PlacedItems :
                IsBelowDirectory(item) =>
                   /\ Lstat(dest, DestPath(item.key)).kind = item.entry.kind
                   /\ Stat(dest, Front(DestPath(item.key))).kind = "dir"

\* The directory entry with relative path key is in the index and the
\* predicate rejects it, and copy_to has placed the file a/a below it in an
\* empty destination, making the directory for it.
PlacedBelowRejected(key) ==
    /\ cpc = "done"
    /\ before = EmptyDest
    /\ HasKey(all, key)
    /\ Lookup(all, key).kind = "dir"
    /\ ~Accepts(key)
    /\ OpsAt(DestPath(key), {"mkdir"}) # {}
    /\ \E item \in PlacedFiles :
          /\ HasPrefix(item.key, key \o Slash)
          /\ Lstat(dest, DestPath(item.key)).kind = "file"

\* The directory a was rejected by an exclude.
C27_Reached == excludes # <<>> /\ PlacedBelowRejected(<<"a">>)

\* The directory a was rejected because no include matches it.
C27_ReachedNoInclude ==
    excludes = <<>> /\ includes # <<>> /\ PlacedBelowRejected(<<"a">>)

-----------------------------------------------------------------------------
(* The destination path of an entry: destdir / PurePosixPath(destprefix +  *)
(* relpath), for any destprefix and any key of the index.                  *)

MaxPrefixLen == 3
MaxRelpathLen == 4

PathChars == {"a", ".", "/"}

\* The destprefix arguments, and the keys of the index: add_entry takes any
\* string.
DestPrefixes == SeqsUpTo(PathChars, MaxPrefixLen)
IndexKeys == SeqsUpTo(PathChars, MaxRelpathLen) \ {<<>>}

\* The keys add_basedir makes: names joined by single slashes, none of
\* them empty, "." or "..".
IsScannedKey(s) ==
    LET names == SplitPath(s, <<>>)
    IN  /\ s # <<>>
        /\ Head(s) # "/"
        /\ s[Len(s)] # "/"
        /\ \A i \in 1..(Len(s) - 1) : ~(s[i] = "/" /\ s[i + 1] = "/")
        /\ \A i \in 1..Len(names) :
              names[i] # <<".">> /\ names[i] # <<".", ".">>
        /\ Cardinality({i \in 1..Len(s) : s[i] = "/"}) = Len(names) - 1

\* The destination directory, /d, as the names from the root.
Destdir == << <<"d">> >>

\* destdir / PurePosixPath(s): an absolute s replaces destdir.
DestdirJoin(s) ==
    IF s # <<>> /\ Head(s) = "/" THEN SplitPath(s, <<>>)
    ELSE Destdir \o SplitPath(s, <<>>)

\* destpath = destdir / PurePosixPath(destprefix + relpath)
DestinationPath(prefix, rel) == DestdirJoin(prefix \o rel)

\* The directory entry the operating system reaches by the names of
\* parts: ".." goes up (the root is its own parent); no name is a
\* symbolic link.
RECURSIVE Walk(_, _)
Walk(at, parts) ==
    IF parts = <<>> THEN at
    ELSE IF Head(parts) = <<".", ".">>
    THEN Walk(IF at = <<>> THEN <<>> ELSE Front(at), Tail(parts))
    ELSE Walk(Append(at, Head(parts)), Tail(parts))

PathStart ==
    /\ dpc = "start"
    /\ destprefix \in DestPrefixes
    /\ entry_relpath \in IndexKeys
    /\ destpath = <<>>
    /\ GlobUnused
    /\ PredUnused
    /\ IndexUnused
    /\ CopyUnused
    /\ RaceUnused
    /\ FilterUnused

\* The first statement of a turn of the loop of copy_to.
ComputeDestpath ==
    /\ dpc = "start"
    /\ destpath' = DestinationPath(destprefix, entry_relpath)
    /\ dpc' = "done"
    /\ UNCHANGED <<destprefix, entry_relpath>>
    /\ UNCHANGED <<globVars, predVars, indexVars, copyVars, procs, filterVars>>

PathNext == ComputeDestpath

SpecPath == PathStart /\ [][PathNext]_vars

-----------------------------------------------------------------------------
(* Claims about the destination path (checked under SpecPath).             *)

\* path is destdir or lies below it.
InsideDestdir(path) == HasPrefix(Walk(<<>>, path), Destdir)

\* C28: for every destprefix and every relative path of the index, scanned
\* or injected, destdir / (destprefix + relative path) lies inside destdir.
C28_InsideDestdir == dpc = "done" => InsideDestdir(destpath)

\* What holds: with the default destprefix "" the destination path of a
\* scanned key lies inside destdir.
C28_ScannedWithoutPrefix ==
    (dpc = "done" /\ destprefix = <<>> /\ IsScannedKey(entry_relpath))
        => InsideDestdir(destpath)

\* destprefix "../" and the scanned key "a": destpath is /d/../a, the entry
\* a of the root directory.
C28_Reached ==
    /\ dpc = "done"
    /\ destprefix = <<".", ".", "/">>
    /\ entry_relpath = <<"a">>
    /\ IsScannedKey(entry_relpath)
    /\ destpath = << <<"d">>, <<".", ".">>, <<"a">> >>
    /\ Walk(<<>>, destpath) = << <<"a">> >>

-----------------------------------------------------------------------------
(* Claims about the skip test (checked under SpecCopy).                    *)

\* The files the running call skipped as already hardlinked.
SkippedFiles ==
    {item \in PlacedFiles : OpsAt(DestPath(item.key), {"skip"}) # {}}

\* C29: a regular file is skipped as already hardlinked only when what is
\* at the destination is the source file itself (same device, same inode
\* number); a different file is never left in place with other content.
C29_SkipOnlySameFile ==
    \A item \in SkippedFiles :
        LET node == Stat(dest, DestPath(item.key))
            st == SrcStat(item.entry)
        IN  SameFile(node, st) /\ node.data = SrcData(st)

\* What the test of the code ensures: the inode numbers are equal.
C29_SkipOnSameInodeNumber ==
    \A item \in SkippedFiles :
        Stat(dest, DestPath(item.key)).ino = SrcStat(item.entry).ino

\* A call has returned that skipped a file whose destination is a file of
\* another device with the inode number of the source file and with other
\* content.
C29_Reached ==
    /\ cpc = "done"
    /\ ~always_copy
    /\ \E item \in SkippedFiles :
          LET node == Stat(dest, DestPath(item.key))
              st == SrcStat(item.entry)
          IN  /\ node.ino = st.ino
              /\ node.dev # st.dev
              /\ node.data # SrcData(st)

-----------------------------------------------------------------------------
(* Claims about the source trees (checked under SpecShared and SpecCopy).  *)

\* os.stat of the regular files of the source trees the processes scanned.
SourceFileStats ==
    UNION { {StatBelow(procs[p].base, loc) :
                loc \in {l \in Locs : fs[procs[p].base][l].kind = "file"}} :
            p \in Procs }

\* The names in the destination of source file st that hold other content
\* than the source tree was scanned with: the file was written to.
WrittenNames(st) ==
    {loc \in Locs : SameFile(dest[loc], st) /\ dest[loc].data # SrcData(st)}

\* C30: with a destination directory disjoint from the base directories,
\* copy_to never changes the content of a file of a source tree (nor
\* removes or renames one: the trees themselves stay as they were), under
\* every interleaving of processes that materialize different source
\* trees into the same destination.
C30_SourceTreesUntouched ==
    \A st \in SourceFileStats : WrittenNames(st) = {}

\* The source trees stay as they were scanned: no step removes or renames
\* a file, symlink or directory of a base directory.
C30_NothingRemoved == [][fs' = fs /\ inodes' = inodes]_vars

\* What holds of one call alone, for every always_copy and remove_dest: no
\* name in the destination of a source file holds other content than the
\* source file.
C30_OneCallLeavesSource ==
    \A src \in Locs :
        fs["A"][src].kind = "file" => WrittenNames(inodes[src]) = {}

\* Both calls have returned, and a file of the tree of process 1, linked
\* into a destination that was empty, holds what process 2 copied from
\* the file of that name of its own tree.
C30_Reached ==
    /\ \A p \in Procs : procs[p].pc = "done"
    /\ before = EmptyDest
    /\ \E loc \in Locs :
          /\ fs["A"][loc].kind = "file"
          /\ SameFile(dest[loc], StatBelow("A", loc))
          /\ dest[loc].data = SrcData(StatBelow("B", loc))

=============================================================================
